---- MODULE Spec2Model ----
(***************************************************************************)
(* Model of the voice-bridge proxy server: the per-connection session      *)
(* manager and the process-wide pending-request queue of                   *)
(* archive/server-node/src/index.ts, the run accumulator of                *)
(* server/src/gateway.ts and the transcript filter of                      *)
(* server/src/filters.ts.                                                  *)
(*                                                                         *)
(* Strings are TLA+ strings; a character is a string of length one.        *)
(* Code points outside ASCII are written as the stand-in characters named  *)
(* below (MIC, BOOK, SMILE).                                               *)
(***************************************************************************)
EXTENDS Integers, Sequences, FiniteSets, TLC

(* ---------------------------------------------------------------------- *)
(* Bounds of the model                                                     *)
(* ---------------------------------------------------------------------- *)
Conns == {1, 2}          \* client connections (WebSocket objects)
TurnIds == {1, 2}        \* calls of the message handler with an audio message
MaxMsgs == 2             \* other client messages, over all connections
MaxChunks == 2           \* audio chunks one synthesis produces
MaxTurnsChunks == 1      \* the same, where many turns interleave (SpecTurns)
MaxKeepalive == 1        \* keepalive interval firings, over all connections
MaxTicks == 3            \* clock advances
TickMs == 30000          \* milliseconds of one clock advance
MaxChallenges == 2       \* connect.challenge events the gateway sends on one socket
MaxRequests == 3         \* control requests sent while response frames are studied

(* ---------------------------------------------------------------------- *)
(* Program constants (index.ts:34-43)                                      *)
(* ---------------------------------------------------------------------- *)
MAX_PAYLOAD == 10485760
MAX_AUDIO_SIZE == 10485760
RATE_LIMIT_REQUESTS == 20
RATE_LIMIT_WINDOW_MS == 60000


(* ---------------------------------------------------------------------- *)
(* Strings                                                                 *)
(* ---------------------------------------------------------------------- *)
MIC == "@"               \* stands for U+1F3A4, the TTS-on marker
BOOK == "~"              \* stands for U+1F4D6, the TTS-off marker
SMILE == "^"             \* stands for U+1F642, an emoji of a response text

UpperChars == "ABCDEFGHIJKLMNOPQRSTUVWXYZ"
LowerChars == "abcdefghijklmnopqrstuvwxyz"

Char(s, i) == SubSeq(s, i, i)

\* String.prototype.toLowerCase, one character
LowerChar(ch) ==
  IF \E k \in 1..Len(UpperChars) : Char(UpperChars, k) = ch
  THEN Char(LowerChars, CHOOSE k \in 1..Len(UpperChars) : Char(UpperChars, k) = ch)
  ELSE ch

RECURSIVE ToLowerCase(_)
ToLowerCase(s) ==
  IF Len(s) = 0 THEN "" ELSE LowerChar(Char(s, 1)) \o ToLowerCase(SubSeq(s, 2, Len(s)))

\* String.prototype.includes
Includes(s, sub) ==
  \E i \in 1..(Len(s) - Len(sub) + 1) : SubSeq(s, i, i + Len(sub) - 1) = sub

(* ---------------------------------------------------------------------- *)
(* Errors thrown inside a turn, and what the client is told                *)
(* ---------------------------------------------------------------------- *)
\* bodies a provider may put into a failed HTTP response
ProviderBodies == {"internal error", "upstream request timeout"}

\* groq.ts transcribeAudio: Groq transcription failed (${status}): ${body}
TranscriptionErrors == {"Groq transcription failed (500): " \o b : b \in ProviderBodies}

\* tts.ts / tts-chatterbox.ts streamTTS: ElevenLabs TTS failed (${status}): ${body},
\* and the error of a response stream that breaks after some chunks
SynthesisErrors ==
  {"ElevenLabs TTS failed (500): " \o b : b \in ProviderBodies} \cup {"terminated"}

\* gateway.ts handleMessage: new Error(res.error?.message || 'Unknown error')
GatewaySendErrors == {"Unknown error"}

GatewayNotConnected == "Gateway not connected"
GatewayTimeoutError == "Gateway response timeout (5 min)"

MsgUnexpected == "An unexpected error occurred"
MsgTimedOut == "Request timed out. Please try again."
MsgUnavailable == "Service temporarily unavailable. Please try again."
MsgAudioFailed == "Failed to process audio. Please try again."
MsgSynthesisFailed == "Voice synthesis failed. Response is text-only."
MsgGeneric == "An error occurred. Please try again."

\* An error value: isError tells an Error instance from any other thrown value.
Err(m) == [isError |-> TRUE, message |-> m]

\* getSafeErrorMessage with the gateway test before the timeout test
getSafeErrorMessageGatewayFirst(err) ==
  IF ~err.isError THEN MsgUnexpected
  ELSE LET message == ToLowerCase(err.message) IN
    IF Includes(message, "gateway") \/ Includes(message, "not connected")
      THEN MsgUnavailable
    ELSE IF Includes(message, "timeout") THEN MsgTimedOut
    ELSE IF Includes(message, "transcri") THEN MsgAudioFailed
    ELSE IF Includes(message, "tts") \/ Includes(message, "speech")
      THEN MsgSynthesisFailed
    ELSE MsgGeneric

\* getSafeErrorMessage (index.ts:314-336): the first keyword found, in the order
\* of the tests, picks the message
getSafeErrorMessage(err) ==
  IF ~err.isError THEN MsgUnexpected
  ELSE LET message == ToLowerCase(err.message) IN
    IF Includes(message, "timeout") THEN MsgTimedOut
    ELSE IF Includes(message, "gateway") \/ Includes(message, "not connected")
      THEN MsgUnavailable
    ELSE IF Includes(message, "transcri") THEN MsgAudioFailed
    ELSE IF Includes(message, "tts") \/ Includes(message, "speech")
      THEN MsgSynthesisFailed
    ELSE MsgGeneric

\* the messages of the error frames the message handler and the auth timer send
MsgAuthTimeout == "Authentication timeout"
MsgInvalidToken == "Invalid token"
MsgNotAuthenticated == "Not authenticated"
MsgRateLimit == "Rate limit exceeded. Please wait."
MsgTooLarge == "Audio data too large"
MsgBadMessage == "Failed to process message"


(* ---------------------------------------------------------------------- *)
(* Regular expressions (the subset the source uses)                        *)
(*                                                                         *)
(* A position is the number of characters before it, 0..Len(s).            *)
(* Ends(r, s, P, f) is the set of positions at which a match of r can end  *)
(* when it starts at a position of P; f holds the flags i and m.           *)
(* ---------------------------------------------------------------------- *)
Lit(str) == <<"lit", str>>
Cls(set) == <<"cls", set>>
NotCls(set) == <<"ncls", set>>
AnyChar == <<"any">>
Cat(rs) == <<"seq", rs>>
Alt(rs) == <<"alt", rs>>
Opt(r) == <<"opt", r>>
Star(r) == <<"star", r>>
Plus(r) == <<"plus", r>>
Bol == <<"bol">>
Eol == <<"eol">>

Flags(i, m) == [i |-> i, m |-> m]

Whitespace == {" ", "\t", "\n", "\r"}             \* \s
Digits == {"0", "1", "2", "3", "4", "5", "6", "7", "8", "9"}   \* \d

Fold(ch, f) == IF f.i THEN LowerChar(ch) ELSE ch

RECURSIVE Ends(_, _, _, _)
RECURSIVE EndsSeq(_, _, _, _, _)
RECURSIVE EndsStar(_, _, _, _)
RECURSIVE EndsLit(_, _, _, _, _)

EndsLit(str, k, s, P, f) ==
  IF k > Len(str) THEN P
  ELSE EndsLit(str, k + 1, s,
               {p + 1 : p \in {q \in P : q < Len(s) /\
                                 Fold(Char(s, q + 1), f) = Fold(Char(str, k), f)}},
               f)

EndsSeq(rs, k, s, P, f) ==
  IF k > Len(rs) \/ P = {} THEN P
  ELSE EndsSeq(rs, k + 1, s, Ends(rs[k], s, P, f), f)

EndsStar(r, s, P, f) ==
  LET N == P \cup Ends(r, s, P, f)
  IN IF N = P THEN P ELSE EndsStar(r, s, N, f)

Ends(r, s, P, f) ==
  CASE r[1] = "lit" -> EndsLit(r[2], 1, s, P, f)
    [] r[1] = "cls" ->
         {p + 1 : p \in {q \in P : q < Len(s) /\ Fold(Char(s, q + 1), f) \in r[2]}}
    [] r[1] = "ncls" ->
         {p + 1 : p \in {q \in P : q < Len(s) /\ Fold(Char(s, q + 1), f) \notin r[2]}}
    [] r[1] = "any" -> {p + 1 : p \in {q \in P : q < Len(s)}}
    [] r[1] = "seq" -> EndsSeq(r[2], 1, s, P, f)
    [] r[1] = "alt" -> UNION {Ends(r[2][k], s, P, f) : k \in 1..Len(r[2])}
    [] r[1] = "opt" -> P \cup Ends(r[2], s, P, f)
    [] r[1] = "star" -> EndsStar(r[2], s, P, f)
    [] r[1] = "plus" -> EndsStar(r[2], s, Ends(r[2], s, P, f), f)
    [] r[1] = "bol" -> {p \in P : p = 0 \/ (f.m /\ Char(s, p) = "\n")}
    [] r[1] = "eol" -> {p \in P : p = Len(s) \/ (f.m /\ Char(s, p + 1) = "\n")}

\* RegExp.prototype.test
Test(r, s, f) == \E p \in 0..Len(s) : Ends(r, s, {p}, f) # {}

Max(S) == CHOOSE x \in S : \A y \in S : y <= x
Min(S) == CHOOSE x \in S : \A y \in S : x <= y

RECURSIVE TrimStart(_)
TrimStart(s) ==
  IF Len(s) > 0 /\ Char(s, 1) \in Whitespace THEN TrimStart(SubSeq(s, 2, Len(s))) ELSE s

RECURSIVE TrimEnd(_)
TrimEnd(s) ==
  IF Len(s) > 0 /\ Char(s, Len(s)) \in Whitespace
  THEN TrimEnd(SubSeq(s, 1, Len(s) - 1)) ELSE s

\* String.prototype.trim
Trim(s) == TrimEnd(TrimStart(s))

RECURSIVE RemoveChars(_, _)
\* s.replace(/[...]/g, '') for a class of single characters
RemoveChars(s, set) ==
  IF Len(s) = 0 THEN ""
  ELSE (IF Char(s, 1) \in set THEN "" ELSE Char(s, 1)) \o
       RemoveChars(SubSeq(s, 2, Len(s)), set)

(* ---------------------------------------------------------------------- *)
(* The transcript filter (filters.ts)                                      *)
(* ---------------------------------------------------------------------- *)
MIN_TRANSCRIPT_LENGTH == 2

HALLUCINATION_PATTERNS == <<
  \* /^thanks?\s*(you)?\s*(for\s+watching)?$/i
  [re |-> Cat(<<Bol, Lit("thank"), Opt(Lit("s")), Star(Cls(Whitespace)),
                Opt(Lit("you")), Star(Cls(Whitespace)),
                Opt(Cat(<<Lit("for"), Plus(Cls(Whitespace)), Lit("watching")>>)), Eol>>),
   flags |-> Flags(TRUE, FALSE)],
  \* /^(please\s+)?subscribe/i
  [re |-> Cat(<<Bol, Opt(Cat(<<Lit("please"), Plus(Cls(Whitespace))>>)),
                Lit("subscribe")>>),
   flags |-> Flags(TRUE, FALSE)],
  \* /^like\s+and\s+subscribe/i
  [re |-> Cat(<<Bol, Lit("like"), Plus(Cls(Whitespace)), Lit("and"),
                Plus(Cls(Whitespace)), Lit("subscribe")>>),
   flags |-> Flags(TRUE, FALSE)],
  \* /^see\s+you\s+(next\s+time|later|soon)/i
  [re |-> Cat(<<Bol, Lit("see"), Plus(Cls(Whitespace)), Lit("you"), Plus(Cls(Whitespace)),
                Alt(<<Cat(<<Lit("next"), Plus(Cls(Whitespace)), Lit("time")>>),
                      Lit("later"), Lit("soon")>>)>>),
   flags |-> Flags(TRUE, FALSE)],
  \* /^bye+$/i
  [re |-> Cat(<<Bol, Lit("by"), Plus(Lit("e")), Eol>>), flags |-> Flags(TRUE, FALSE)],
  \* /^(uh+|um+|hmm+)$/i
  [re |-> Cat(<<Bol, Alt(<<Cat(<<Lit("u"), Plus(Lit("h"))>>),
                           Cat(<<Lit("u"), Plus(Lit("m"))>>),
                           Cat(<<Lit("hm"), Plus(Lit("m"))>>)>>), Eol>>),
   flags |-> Flags(TRUE, FALSE)],
  \* /^\.+$/
  [re |-> Cat(<<Bol, Plus(Lit(".")), Eol>>), flags |-> Flags(FALSE, FALSE)] >>

\* transcript.trim().replace(/[.!?,]/g, '')
Normalized(transcript) == RemoveChars(Trim(transcript), {".", "!", "?", ","})

\* a filter that knows no hallucination pattern
isHallucinationNever(transcript) == FALSE

isHallucination(transcript) ==
  \E k \in 1..Len(HALLUCINATION_PATTERNS) :
    Test(HALLUCINATION_PATTERNS[k].re, Normalized(transcript), HALLUCINATION_PATTERNS[k].flags)

isTooShort(transcript) == Len(Normalized(transcript)) < MIN_TRANSCRIPT_LENGTH

\* shouldFilter with the noise test before the empty test
shouldFilterNoiseFirst(transcript) ==
  LET trimmed == Trim(transcript) IN
  IF isTooShort(trimmed) THEN [filtered |-> TRUE, reason |-> "noise"]
  ELSE IF trimmed = "" THEN [filtered |-> TRUE, reason |-> "empty"]
  ELSE IF isHallucination(trimmed) THEN [filtered |-> TRUE, reason |-> "hallucination"]
  ELSE [filtered |-> FALSE, reason |-> "none"]

\* shouldFilter (filters.ts:52-68); reason "none" stands for the absent reason
shouldFilter(transcript) ==
  LET trimmed == Trim(transcript) IN
  IF trimmed = "" THEN [filtered |-> TRUE, reason |-> "empty"]
  ELSE IF isTooShort(trimmed) THEN [filtered |-> TRUE, reason |-> "noise"]
  ELSE IF isHallucination(trimmed) THEN [filtered |-> TRUE, reason |-> "hallucination"]
  ELSE [filtered |-> FALSE, reason |-> "none"]

(* ---------------------------------------------------------------------- *)
(* Cleaning of the response text before synthesis (index.ts:253-272)       *)
(*                                                                         *)
(* s.replace(re, ...) with the g flag: the leftmost match is replaced and  *)
(* the search goes on after it. Every pattern below matches at least one   *)
(* character, and the match a backtracking engine prefers is the longest   *)
(* one for a greedy pattern and the shortest one for the lazy one.         *)
(* ---------------------------------------------------------------------- *)
SUN == "%"               \* stands for U+2600 (miscellaneous symbols)
SCISSORS == "&"          \* stands for U+2702 (dingbats)
VS16 == "{"              \* stands for U+FE0F (variation selector)
ZWJ == "}"               \* stands for U+200D (zero-width joiner)
BACKTICK == "$"          \* stands for U+0060, which a TLA+ string cannot hold

RECURSIVE ReplaceFrom(_, _, _, _, _, _)
\* replace every match of r by the string repl, from position i on
ReplaceFrom(s, i, r, f, lazy, repl) ==
  LET starts == {p \in i..Len(s) : Ends(r, s, {p}, f) # {}} IN
  IF starts = {} THEN SubSeq(s, i + 1, Len(s))
  ELSE LET a == Min(starts)
           E == Ends(r, s, {a}, f)
           b == IF lazy THEN Min(E) ELSE Max(E)
       IN SubSeq(s, i + 1, a) \o repl \o ReplaceFrom(s, b, r, f, lazy, repl)

ReplaceAll(s, r, f, lazy, repl) == ReplaceFrom(s, 0, r, f, lazy, repl)

RECURSIVE UnwrapFrom(_, _, _, _, _, _)
\* replace every match of pre(inner)post by $1, the text inner matched
UnwrapFrom(s, i, pre, inner, post, f) ==
  LET whole == Cat(<<pre, inner, post>>)
      starts == {p \in i..Len(s) : Ends(whole, s, {p}, f) # {}}
  IN IF starts = {} THEN SubSeq(s, i + 1, Len(s))
     ELSE LET a == Min(starts)
              a1 == Max(Ends(pre, s, {a}, f))
              b1 == Max({q \in Ends(inner, s, {a1}, f) : Ends(post, s, {q}, f) # {}})
              b == Max(Ends(post, s, {b1}, f))
          IN SubSeq(s, i + 1, a) \o SubSeq(s, a1 + 1, b1) \o
             UnwrapFrom(s, b, pre, inner, post, f)

Unwrap(s, pre, inner, post) == UnwrapFrom(s, 0, pre, inner, post, Flags(FALSE, FALSE))

G == Flags(FALSE, FALSE)     \* the flags g and gu
GM == Flags(FALSE, TRUE)     \* the flags gm

\* /^>\s*MIC?\s*QUOTE[^QUOTE]*QUOTE\n*/gm (QUOTE: the double quote). The pattern has no u flag, so the ? applies to the
\* low surrogate of the marker alone and its high surrogate is required: on text
\* without lone surrogates the marker is mandatory.
ReEcho == Cat(<<Bol, Lit(">"), Star(Cls(Whitespace)), Lit(MIC), Star(Cls(Whitespace)),
                Lit("\""), Star(NotCls({"\""})), Lit("\""), Star(Lit("\n"))>>)
\* /BACKTICK{3}[\s\S]*?BACKTICK{3}/g
ReCodeBlock == Cat(<<Lit(BACKTICK \o BACKTICK \o BACKTICK), Star(AnyChar), Lit(BACKTICK \o BACKTICK \o BACKTICK)>>)
\* /\|[^\n]+\|/g
ReTableRow == Cat(<<Lit("|"), Plus(NotCls({"\n"})), Lit("|")>>)
\* /https?:\/\/\S+/g
ReUrl == Cat(<<Lit("http"), Opt(Lit("s")), Lit("://"), Plus(NotCls(Whitespace))>>)
\* /#{1,6}\s*/g
ReHeader == Cat(<<Lit("#"), Opt(Lit("#")), Opt(Lit("#")), Opt(Lit("#")), Opt(Lit("#")),
                  Opt(Lit("#")), Star(Cls(Whitespace))>>)
\* /^[-*]\s+/gm
ReBullet == Cat(<<Bol, Cls({"-", "*"}), Plus(Cls(Whitespace))>>)
\* /^\d+\.\s+/gm
ReNumbered == Cat(<<Bol, Plus(Cls(Digits)), Lit("."), Plus(Cls(Whitespace))>>)
\* /\n{2,}/g
ReBlankLines == Cat(<<Lit("\n\n"), Star(Lit("\n"))>>)

Step1(s) == ReplaceAll(s, ReEcho, GM, FALSE, "")
Step2(s) == ReplaceAll(s, ReCodeBlock, G, TRUE, " (code block omitted) ")
Step3(s) == ReplaceAll(s, ReTableRow, G, FALSE, "")
\* /\[([^\]]+)\]\([^)]+\)/g -> $1
Step4(s) == Unwrap(s, Lit("["), Plus(NotCls({"]"})),
                   Cat(<<Lit("]("), Plus(NotCls({")"})), Lit(")")>>))
Step5(s) == ReplaceAll(s, ReUrl, G, FALSE, "")
\* /\*\*([^*]+)\*\*/g -> $1
Step6(s) == Unwrap(s, Lit("**"), Plus(NotCls({"*"})), Lit("**"))
\* /\*([^*]+)\*/g -> $1
Step7(s) == Unwrap(s, Lit("*"), Plus(NotCls({"*"})), Lit("*"))
\* /BACKTICK([^BACKTICK]+)BACKTICK/g -> $1
Step8(s) == Unwrap(s, Lit(BACKTICK), Plus(NotCls({BACKTICK})), Lit(BACKTICK))
Step9(s) == ReplaceAll(s, ReHeader, G, FALSE, "")
Step10(s) == ReplaceAll(s, ReBullet, GM, FALSE, "")
Step11(s) == ReplaceAll(s, ReNumbered, GM, FALSE, "")
\* the five code point classes removed with the flags gu
Step12(s) == RemoveChars(s, {MIC, BOOK, SMILE, SUN, SCISSORS, VS16, ZWJ})
Step13(s) == ReplaceAll(s, ReBlankLines, G, FALSE, ". ")
Step14(s) == ReplaceAll(s, Lit("\n"), G, FALSE, " ")

\* const spokenText = response.text.replace(...)....trim()
spokenText(text) ==
  Trim(Step14(Step13(Step12(Step11(Step10(Step9(Step8(Step7(Step6(Step5(Step4(
    Step3(Step2(Step1(text)))))))))))))))

(* ---------------------------------------------------------------------- *)
(* Inputs                                                                  *)
(* ---------------------------------------------------------------------- *)
AuthToken == "secret"                      \* config.authToken
Tokens == {AuthToken, "guess"}             \* tokens a client presents
AudioLens == {4, MAX_PAYLOAD - 64}         \* length of msg.data (base64 characters)
Locations == {"none", "here"}              \* msg.location absent or present
\* texts the transcription adapter returns
Transcripts == {"", "thank you", " What's the weather?"}
\* what a final gateway response holds: text, an emoji alone, media without text
GwResponses ==
  {[text |-> "Sunny and 20C", mediaUrls |-> <<>>],
   [text |-> SMILE, mediaUrls |-> <<>>],
   [text |-> "", mediaUrls |-> <<"/tmp/reply.mp3">>]}

\* The pure functions on the inputs above, evaluated once.
ThrownErrors ==
  TranscriptionErrors \cup SynthesisErrors \cup GatewaySendErrors \cup
  {GatewayNotConnected, GatewayTimeoutError}
SafeMessageOf == [m \in ThrownErrors |-> getSafeErrorMessage(Err(m))]
FilteredOf == [text \in Transcripts |-> shouldFilter(text).filtered]
\* texts the events of a run carry: the text so far, then the whole text
EventTexts == {"Sunny", "Sunny and 20C"}
ResponseTexts == {r.text : r \in GwResponses} \cup EventTexts
SpokenTextOf == [text \in ResponseTexts |-> spokenText(text)]

(* ---------------------------------------------------------------------- *)
(* State                                                                   *)
(* ---------------------------------------------------------------------- *)
VARIABLES
  readyState,          \* ws.readyState of each connection ("NONE": not accepted yet)
  connectionAuthed,    \* connectionAuthed (index.ts:358)
  connectionTtsState,  \* connectionTtsState (index.ts:357)
  connectionRateLimit, \* connectionRateLimit (index.ts:359)
  authTimeout,         \* the auth timer of each connection is armed (index.ts:390)
  keepaliveIntervals,  \* connections with an armed keepalive interval (index.ts:94)
  pendingRequests,     \* the shared queue (index.ts:91), oldest first, as turn ids
  turns,               \* one record per call of the message handler with an audio message
  sent,                \* sent[c][t]: the frames written to connection c by ws.send
                       \* within turn t (t = 0: outside any turn), in order
  connected,           \* gatewayClient.isConnected()
  gwInbox,             \* chat.send requests the gateway holds and has not answered
  now,                 \* Date.now()
  msgs,                \* client messages handled so far that start no turn
  kaFired,             \* keepalive interval firings so far
  responseBuffer,      \* GatewayClient.responseBuffer (gateway.ts:50), by run id
  mediaUrlsBuffer,     \* GatewayClient.mediaUrlsBuffer (gateway.ts:51), by run id
  gwFrame,             \* the event frame the gateway client handled last
  wsErrors,            \* connections whose socket has emitted 'error' (index.ts:482)
  lastMsg,             \* the message the handler took last (msg, index.ts:400)
  arg,                 \* the argument of the pure function under study
  ret,                 \* what the function returned for it, NoCall before the call
  gatewayClient,       \* the connection state of the GatewayClient (gateway.ts:44-49)
                       \* and the timers that refer to it
  listening,           \* server.listen was called (index.ts:507)
  pending,             \* GatewayClient.pending (gateway.ts:46): method by request id
  settled,             \* by request id, the settlements of its promise, in order
  lastRes              \* the response frame handleMessage took last

vars == <<readyState, connectionAuthed, connectionTtsState, connectionRateLimit,
          authTimeout, keepaliveIntervals, pendingRequests, turns, sent, connected,
          gwInbox, now, msgs, kaFired, responseBuffer, mediaUrlsBuffer, gwFrame,
          wsErrors, lastMsg, arg, ret, gatewayClient, listening, pending, settled,
          lastRes>>
wsVars == <<wsErrors, lastMsg>>
callVars == <<arg, ret>>
connVars == <<gatewayClient, listening>>
resVars == <<pending, settled, lastRes>>

\* request ids stand for the UUIDs of request(); UnknownId was never issued
ReqIds == 1..MaxRequests
UnknownId == 0
NoPending == [id \in {} |-> ""]
NoRes == [id |-> UnknownId, ok |-> FALSE, message |-> "none"]

\* the gateway client once its handshake has succeeded and its timers have run
ClientConnected ==
  [ws |-> "OPEN", connectPromise |-> "resolved", connectResolved |-> TRUE,
   connectNonce |-> TRUE, challenges |-> 1, connects |-> 1, request |-> 0,
   timeout |-> FALSE, fallback |-> FALSE, reconnect |-> 0, sockets |-> 1]

\* the state of the gateway client's event handlers
gwVars == <<responseBuffer, mediaUrlsBuffer, gwFrame>>

NoFrame == [event |-> "none", sessionKey |-> "", state |-> "", runId |-> 0, text |-> ""]
NoEntries == [runId \in {} |-> ""]

NoLimit == [set |-> FALSE, count |-> 0, resetAt |-> 0]
NoResponse == [text |-> "", mediaUrls |-> <<>>, re |-> 0]
NoMessage == [prefix |-> "", location |-> "none", text |-> ""]

\* pc: "unused" | "transcribing" | "awaiting" | "tts" | "readfile" | "done"
\* a client message as the handler sees it: its connection, msg.type and, for
\* tts_state, msg.enabled
Msg(c, type, enabled) ==
  [conn |-> c, type |-> type, enabled |-> enabled, token |-> ""]
\* {type:'auth', token}
AuthMsg(c, token) == [Msg(c, "auth", FALSE) EXCEPT !.token = token]
NoMsg == Msg(0, "", FALSE)

\* a call of function fn that returned value
Call(fn, value) == [fn |-> fn, value |-> value]
NoCall == [fn |-> "none"]

NoTurn ==
  [conn |-> 0, pc |-> "unused", accepted |-> FALSE, location |-> "none",
   transcript |-> "", message |-> NoMessage, timeout |-> FALSE,
   response |-> NoResponse, resolved |-> FALSE, error |-> "", chunks |-> 0]

Frame(type, turn, data) == [type |-> type, turn |-> turn, data |-> data, n |-> 0]
AudioFrame(turn, k) == [type |-> "audio", turn |-> turn, data |-> "", n |-> k]

\* sendMessage without its readyState test
SendAllAlways(c, frames) == [sent EXCEPT ![c][frames[1].turn] = @ \o frames]

\* sendMessage (index.ts:190-194), applied to the frames one step sends to ws
SendAll(c, frames) ==
  IF readyState[c] = "OPEN"
  THEN [sent EXCEPT ![c][frames[1].turn] = @ \o frames]
  ELSE sent

\* the turn record the next audio message gets
NextTurn == CHOOSE t \in TurnIds : turns[t].pc = "unused" /\
                                   \A u \in TurnIds : u < t => turns[u].pc # "unused"
HasFreeTurn == \E t \in TurnIds : turns[t].pc = "unused"

RECURSIVE Without(_, _)
\* pendingRequests.splice(idx, 1) for every entry selected by drop
Without(q, drop) ==
  IF q = <<>> THEN <<>>
  ELSE IF Head(q) \in drop THEN Without(Tail(q), drop)
  ELSE <<Head(q)>> \o Without(Tail(q), drop)

InQueue(q, t) == \E i \in 1..Len(q) : q[i] = t

Init ==
  /\ readyState = [c \in Conns |-> "NONE"]
  /\ connectionAuthed = [c \in Conns |-> FALSE]
  /\ connectionTtsState = [c \in Conns |-> TRUE]
  /\ connectionRateLimit = [c \in Conns |-> NoLimit]
  /\ authTimeout = [c \in Conns |-> FALSE]
  /\ keepaliveIntervals = {}
  /\ pendingRequests = <<>>
  /\ turns = [t \in TurnIds |-> NoTurn]
  /\ sent = [c \in Conns |-> [t \in TurnIds \cup {0} |-> <<>>]]
  /\ connected = TRUE
  /\ gwInbox = <<>>
  /\ now = 0
  /\ msgs = 0
  /\ kaFired = 0
  /\ responseBuffer = NoEntries
  /\ mediaUrlsBuffer = NoEntries
  /\ gwFrame = NoFrame
  /\ wsErrors = {}
  /\ lastMsg = NoMsg
  /\ gatewayClient = ClientConnected
  /\ listening = TRUE
  /\ pending = NoPending
  /\ settled = [id \in ReqIds |-> <<>>]
  /\ lastRes = NoRes
  /\ arg = ""
  /\ ret = NoCall

(* ---------------------------------------------------------------------- *)
(* Connection lifecycle and the message handler (index.ts:381-485)         *)
(* ---------------------------------------------------------------------- *)
\* wss.on('connection')
Connect(c) ==
  /\ UNCHANGED callVars
  /\ UNCHANGED resVars
  /\ UNCHANGED connVars
  /\ UNCHANGED wsVars
  /\ UNCHANGED gwVars
  /\ readyState[c] = "NONE"
  /\ readyState' = [readyState EXCEPT ![c] = "OPEN"]
  /\ connectionTtsState' = [connectionTtsState EXCEPT ![c] = TRUE]
  /\ connectionAuthed' = [connectionAuthed EXCEPT ![c] = FALSE]
  /\ authTimeout' = [authTimeout EXCEPT ![c] = TRUE]
  /\ UNCHANGED <<connectionRateLimit, keepaliveIntervals, pendingRequests, turns, sent,
                 connected, gwInbox, now, msgs, kaFired>>

\* ws.close() called by the server
WsClose(c) == IF readyState[c] = "OPEN" THEN "CLOSING" ELSE readyState[c]

\* the auth timer without its ws.close
AuthTimeoutFiresNoClose(c) ==
  /\ UNCHANGED callVars
  /\ UNCHANGED resVars
  /\ UNCHANGED connVars
  /\ UNCHANGED wsVars
  /\ UNCHANGED gwVars
  /\ authTimeout[c]
  /\ authTimeout' = [authTimeout EXCEPT ![c] = FALSE]
  /\ IF ~connectionAuthed[c]
     THEN /\ sent' = SendAll(c, <<Frame("error", 0, MsgAuthTimeout)>>)
          /\ UNCHANGED readyState
     ELSE UNCHANGED <<sent, readyState>>
  /\ UNCHANGED <<connectionAuthed, connectionTtsState, connectionRateLimit,
                 keepaliveIntervals, pendingRequests, turns, connected, gwInbox, now,
                 msgs, kaFired>>

\* the authTimeout callback (index.ts:390-396)
AuthTimeoutFires(c) ==
  /\ UNCHANGED callVars
  /\ UNCHANGED resVars
  /\ UNCHANGED connVars
  /\ UNCHANGED wsVars
  /\ UNCHANGED gwVars
  /\ authTimeout[c]
  /\ authTimeout' = [authTimeout EXCEPT ![c] = FALSE]
  /\ IF ~connectionAuthed[c]
     THEN /\ sent' = SendAll(c, <<Frame("error", 0, MsgAuthTimeout)>>)
          /\ readyState' = [readyState EXCEPT ![c] = WsClose(c)]
     ELSE UNCHANGED <<sent, readyState>>
  /\ UNCHANGED <<connectionAuthed, connectionTtsState, connectionRateLimit,
                 keepaliveIntervals, pendingRequests, turns, connected, gwInbox, now,
                 msgs, kaFired>>

\* a client message can be delivered to the handler
CanReceive(c) == readyState[c] \in {"OPEN", "CLOSING"}

\* the rejection, followed by ws.close() as in the wrong-token branch
RejectUnauthenticatedClosing(c) ==
  /\ sent' = SendAll(c, <<Frame("error", 0, MsgNotAuthenticated)>>)
  /\ readyState' = [readyState EXCEPT ![c] = WsClose(c)]
  /\ UNCHANGED <<connectionAuthed, connectionTtsState, connectionRateLimit,
                 authTimeout, keepaliveIntervals, pendingRequests, turns, connected,
                 gwInbox, now, kaFired>>

\* the branch of the handler for a connection that is not authenticated, for a
\* message that is not auth (index.ts:403, 415-419)
RejectUnauthenticated(c) ==
  /\ sent' = SendAll(c, <<Frame("error", 0, MsgNotAuthenticated)>>)
  /\ UNCHANGED <<readyState, connectionAuthed, connectionTtsState, connectionRateLimit,
                 authTimeout, keepaliveIntervals, pendingRequests, turns, connected,
                 gwInbox, now, kaFired>>

CountMsg(c) ==
  /\ msgs < MaxMsgs
  /\ msgs' = msgs + 1

\* auth checked again on a connection already authenticated
RecvAuthRechecked(c, token) ==
  /\ UNCHANGED callVars
  /\ UNCHANGED resVars
  /\ UNCHANGED connVars
  /\ UNCHANGED wsErrors
  /\ lastMsg' = AuthMsg(c, token)
  /\ UNCHANGED gwVars
  /\ CanReceive(c)
  /\ CountMsg(c)
  /\ IF TRUE
     THEN IF token = AuthToken
          THEN /\ connectionAuthed' = [connectionAuthed EXCEPT ![c] = TRUE]
               /\ authTimeout' = [authTimeout EXCEPT ![c] = FALSE]
               /\ sent' = SendAll(c, <<Frame("status", 0, "transcribing")>>)
               /\ UNCHANGED readyState
          ELSE /\ sent' = SendAll(c, <<Frame("error", 0, MsgInvalidToken)>>)
               /\ readyState' = [readyState EXCEPT ![c] = WsClose(c)]
               /\ UNCHANGED <<connectionAuthed, authTimeout>>
     ELSE UNCHANGED <<connectionAuthed, authTimeout, sent, readyState>>
  /\ UNCHANGED <<connectionTtsState, connectionRateLimit, keepaliveIntervals,
                 pendingRequests, turns, connected, gwInbox, now, kaFired>>

\* {type:'auth', token}
RecvAuth(c, token) ==
  /\ UNCHANGED callVars
  /\ UNCHANGED resVars
  /\ UNCHANGED connVars
  /\ UNCHANGED wsErrors
  /\ lastMsg' = AuthMsg(c, token)
  /\ UNCHANGED gwVars
  /\ CanReceive(c)
  /\ CountMsg(c)
  /\ IF ~connectionAuthed[c]
     THEN IF token = AuthToken
          THEN /\ connectionAuthed' = [connectionAuthed EXCEPT ![c] = TRUE]
               /\ authTimeout' = [authTimeout EXCEPT ![c] = FALSE]
               /\ sent' = SendAll(c, <<Frame("status", 0, "transcribing")>>)
               /\ UNCHANGED readyState
          ELSE /\ sent' = SendAll(c, <<Frame("error", 0, MsgInvalidToken)>>)
               /\ readyState' = [readyState EXCEPT ![c] = WsClose(c)]
               /\ UNCHANGED <<connectionAuthed, authTimeout>>
     ELSE UNCHANGED <<connectionAuthed, authTimeout, sent, readyState>>
  /\ UNCHANGED <<connectionTtsState, connectionRateLimit, keepaliveIntervals,
                 pendingRequests, turns, connected, gwInbox, now, kaFired>>

\* ping answered only while no turn of the connection is in flight
RecvPingIdleOnly(c) ==
  /\ UNCHANGED callVars
  /\ UNCHANGED resVars
  /\ UNCHANGED connVars
  /\ lastMsg' = Msg(c, "ping", FALSE)
  /\ UNCHANGED wsErrors
  /\ UNCHANGED gwVars
  /\ CanReceive(c)
  /\ CountMsg(c)
  /\ IF ~connectionAuthed[c]
     THEN RejectUnauthenticated(c)
     ELSE /\ sent' = IF \E t \in TurnIds : turns[t].conn = c /\ turns[t].pc # "done"
                     THEN sent
                     ELSE SendAll(c, <<Frame("pong", 0, "")>>)
          /\ UNCHANGED <<readyState, connectionAuthed, connectionTtsState,
                         connectionRateLimit, authTimeout, keepaliveIntervals,
                         pendingRequests, turns, connected, gwInbox, now, kaFired>>

\* {type:'ping'} (index.ts:443-445)
RecvPing(c) ==
  /\ UNCHANGED callVars
  /\ UNCHANGED resVars
  /\ UNCHANGED connVars
  /\ UNCHANGED wsErrors
  /\ lastMsg' = Msg(c, "ping", FALSE)
  /\ UNCHANGED gwVars
  /\ CanReceive(c)
  /\ CountMsg(c)
  /\ IF ~connectionAuthed[c]
     THEN RejectUnauthenticated(c)
     ELSE /\ sent' = SendAll(c, <<Frame("pong", 0, "")>>)
          /\ UNCHANGED <<readyState, connectionAuthed, connectionTtsState,
                         connectionRateLimit, authTimeout, keepaliveIntervals,
                         pendingRequests, turns, connected, gwInbox, now, kaFired>>

\* tts_state setting the flag of every connection
RecvTtsStateAll(c, enabled) ==
  /\ UNCHANGED callVars
  /\ UNCHANGED resVars
  /\ UNCHANGED connVars
  /\ lastMsg' = Msg(c, "tts_state", enabled)
  /\ UNCHANGED wsErrors
  /\ UNCHANGED gwVars
  /\ CanReceive(c)
  /\ CountMsg(c)
  /\ IF ~connectionAuthed[c]
     THEN RejectUnauthenticated(c)
     ELSE /\ connectionTtsState' = [d \in Conns |-> enabled]
          /\ UNCHANGED <<readyState, connectionAuthed, connectionRateLimit, authTimeout,
                         keepaliveIntervals, pendingRequests, turns, sent, connected,
                         gwInbox, now, kaFired>>

\* {type:'tts_state', enabled} (index.ts:447-450)
RecvTtsState(c, enabled) ==
  /\ UNCHANGED callVars
  /\ UNCHANGED resVars
  /\ UNCHANGED connVars
  /\ UNCHANGED wsErrors
  /\ lastMsg' = Msg(c, "tts_state", enabled)
  /\ UNCHANGED gwVars
  /\ CanReceive(c)
  /\ CountMsg(c)
  /\ IF ~connectionAuthed[c]
     THEN RejectUnauthenticated(c)
     ELSE /\ connectionTtsState' = [connectionTtsState EXCEPT ![c] = enabled]
          /\ UNCHANGED <<readyState, connectionAuthed, connectionRateLimit, authTimeout,
                         keepaliveIntervals, pendingRequests, turns, sent, connected,
                         gwInbox, now, kaFired>>

\* a message whose type is none of the known ones (index.ts:456-457)
RecvUnknown(c) ==
  /\ UNCHANGED callVars
  /\ UNCHANGED resVars
  /\ UNCHANGED connVars
  /\ UNCHANGED wsErrors
  /\ lastMsg' = Msg(c, "unknown", FALSE)
  /\ UNCHANGED gwVars
  /\ CanReceive(c)
  /\ CountMsg(c)
  /\ IF ~connectionAuthed[c]
     THEN RejectUnauthenticated(c)
     ELSE UNCHANGED <<readyState, connectionAuthed, connectionTtsState,
                      connectionRateLimit, authTimeout, keepaliveIntervals,
                      pendingRequests, turns, sent, connected, gwInbox, now, kaFired>>

\* a handler that answers the frame and closes the connection
RecvMalformedClosing(c) ==
  /\ UNCHANGED callVars
  /\ UNCHANGED resVars
  /\ UNCHANGED connVars
  /\ UNCHANGED wsErrors
  /\ lastMsg' = Msg(c, "malformed", FALSE)
  /\ UNCHANGED gwVars
  /\ CanReceive(c)
  /\ CountMsg(c)
  /\ sent' = SendAll(c, <<Frame("error", 0, MsgBadMessage)>>)
  /\ readyState' = [readyState EXCEPT ![c] = WsClose(c)]
  /\ UNCHANGED <<connectionAuthed, connectionTtsState, connectionRateLimit,
                 authTimeout, keepaliveIntervals, pendingRequests, turns, connected,
                 gwInbox, now, kaFired>>

\* a frame JSON.parse throws on: the catch of the handler (index.ts:459-465)
RecvMalformed(c) ==
  /\ UNCHANGED callVars
  /\ UNCHANGED resVars
  /\ UNCHANGED connVars
  /\ UNCHANGED wsErrors
  /\ lastMsg' = Msg(c, "malformed", FALSE)
  /\ UNCHANGED gwVars
  /\ CanReceive(c)
  /\ CountMsg(c)
  /\ sent' = SendAll(c, <<Frame("error", 0, MsgBadMessage)>>)
  /\ UNCHANGED <<readyState, connectionAuthed, connectionTtsState, connectionRateLimit,
                 authTimeout, keepaliveIntervals, pendingRequests, turns, connected,
                 gwInbox, now, kaFired>>

\* Connections are interchangeable: the one whose audio message starts the first
\* turn is given the least number.
FirstTurnOnFirst(c) ==
  (\A t \in TurnIds : turns[t].pc = "unused") => \A d \in Conns : c <= d

\* checkRateLimit that lets the count pass the limit by one
RateLimitAfterOffByOne(c) ==
  LET limit == IF ~connectionRateLimit[c].set \/ now > connectionRateLimit[c].resetAt
               THEN [set |-> TRUE, count |-> 0, resetAt |-> now + RATE_LIMIT_WINDOW_MS]
               ELSE connectionRateLimit[c]
  IN IF limit.count > RATE_LIMIT_REQUESTS
     THEN [ok |-> FALSE, limit |-> connectionRateLimit[c]]
     ELSE [ok |-> TRUE, limit |-> [limit EXCEPT !.count = @ + 1]]

\* checkRateLimit (index.ts:364-379): the limit record after the call, and its result
RateLimitAfter(c) ==
  LET limit == IF ~connectionRateLimit[c].set \/ now > connectionRateLimit[c].resetAt
               THEN [set |-> TRUE, count |-> 0, resetAt |-> now + RATE_LIMIT_WINDOW_MS]
               ELSE connectionRateLimit[c]
  IN IF limit.count >= RATE_LIMIT_REQUESTS
     THEN [ok |-> FALSE, limit |-> connectionRateLimit[c]]
     ELSE [ok |-> TRUE, limit |-> [limit EXCEPT !.count = @ + 1]]

checkRateLimit(c) == RateLimitAfter(c).ok

\* Buffer.byteLength(data, 'base64') of a string of len characters
Base64ByteLength(len) == (len * 3) \div 4

\* {type:'audio', data, location}: the handler up to the first await of
\* handleAudioMessage (index.ts:424-441, 196-204)
RecvAudio(c, len, loc) ==
  /\ UNCHANGED callVars
  /\ UNCHANGED resVars
  /\ UNCHANGED connVars
  /\ UNCHANGED wsErrors
  /\ lastMsg' = Msg(c, "audio", FALSE)
  /\ UNCHANGED gwVars
  /\ CanReceive(c)
  /\ len <= MAX_PAYLOAD
  /\ IF ~connectionAuthed[c]
     THEN /\ CountMsg(c)
          /\ RejectUnauthenticated(c)
     ELSE /\ HasFreeTurn
          /\ FirstTurnOnFirst(c)
          /\ LET t == NextTurn
                 new == [NoTurn EXCEPT !.conn = c, !.location = loc]
             IN IF ~checkRateLimit(c)
                THEN /\ sent' = SendAll(c, <<Frame("error", t, MsgRateLimit),
                                             Frame("audio_end", t, "")>>)
                     /\ turns' = [turns EXCEPT ![t] = [new EXCEPT !.pc = "done"]]
                     /\ UNCHANGED connectionRateLimit
                ELSE /\ connectionRateLimit' =
                          [connectionRateLimit EXCEPT ![c] = RateLimitAfter(c).limit]
                     /\ IF Base64ByteLength(len) > MAX_AUDIO_SIZE
                        THEN /\ sent' = SendAll(c, <<Frame("error", t, MsgTooLarge),
                                                     Frame("audio_end", t, "")>>)
                             /\ turns' = [turns EXCEPT ![t] = [new EXCEPT !.pc = "done"]]
                        ELSE /\ sent' = SendAll(c, <<Frame("status", t, "transcribing")>>)
                             /\ turns' = [turns EXCEPT ![t] =
                                  [new EXCEPT !.pc = "transcribing", !.accepted = TRUE]]
          /\ UNCHANGED <<readyState, connectionAuthed, connectionTtsState, authTimeout,
                         keepaliveIntervals, pendingRequests, connected, gwInbox, now,
                         msgs, kaFired>>

\* the least length of base64 text that decodes to more than MAX_AUDIO_SIZE bytes
OversizeLens == {(MAX_AUDIO_SIZE \div 3 + 1) * 4}

\* A frame of more than maxPayload bytes (index.ts:31-35): the socket does not
\* hand it to the message handler, it emits 'error' (index.ts:482-484) and closes.
RecvTooBig(c, len) ==
  /\ UNCHANGED callVars
  /\ UNCHANGED resVars
  /\ UNCHANGED connVars
  /\ CanReceive(c)
  /\ len > MAX_PAYLOAD
  /\ c \notin wsErrors
  /\ wsErrors' = wsErrors \cup {c}
  /\ UNCHANGED lastMsg
  /\ readyState' = [readyState EXCEPT ![c] = WsClose(c)]
  /\ UNCHANGED gwVars
  /\ UNCHANGED <<connectionAuthed, connectionTtsState, connectionRateLimit,
                 authTimeout, keepaliveIntervals, pendingRequests, turns, sent,
                 connected, gwInbox, now, msgs, kaFired>>

\* ws.on('close') (index.ts:468-480)
OnClose(c) ==
  /\ UNCHANGED callVars
  /\ UNCHANGED resVars
  /\ UNCHANGED connVars
  /\ UNCHANGED wsVars
  /\ UNCHANGED gwVars
  /\ CanReceive(c)
  /\ readyState' = [readyState EXCEPT ![c] = "CLOSED"]
  /\ authTimeout' = [authTimeout EXCEPT ![c] = FALSE]
  /\ LET mine == {t \in TurnIds : InQueue(pendingRequests, t) /\ turns[t].conn = c}
     IN /\ pendingRequests' = Without(pendingRequests, mine)
        /\ turns' = [t \in TurnIds |->
                       IF t \in mine THEN [turns[t] EXCEPT !.timeout = FALSE] ELSE turns[t]]
  /\ keepaliveIntervals' = keepaliveIntervals \ {c}
  /\ UNCHANGED <<connectionAuthed, connectionTtsState, connectionRateLimit, sent,
                 connected, gwInbox, now, msgs, kaFired>>

(* ---------------------------------------------------------------------- *)
(* The turn: handleAudioMessage after its first await (index.ts:204-309)   *)
(* ---------------------------------------------------------------------- *)
\* the catch with its two sendMessage calls exchanged
CatchFramesEndFirst(t, m) ==
  <<Frame("audio_end", t, ""), Frame("error", t, SafeMessageOf[m])>>

\* the catch that forgets to end the stream
CatchFramesNoEnd(t, m) == <<Frame("error", t, SafeMessageOf[m])>>

\* the catch that sends the message of the error itself
CatchFramesRaw(t, m) == <<Frame("error", t, m), Frame("audio_end", t, "")>>

\* the catch of handleAudioMessage (index.ts:300-308) for the error message m
CatchFrames(t, m) ==
  <<Frame("error", t, SafeMessageOf[m]), Frame("audio_end", t, "")>>

\* the message forwarded with the marker of enabled speech whatever the flag
ForwardedMessageAlwaysOn(c, loc, transcript) ==
  [prefix |-> MIC, location |-> loc, text |-> transcript]

\* the message forwarded to the gateway (index.ts:224-231)
ForwardedMessage(c, loc, transcript) ==
  [prefix |-> IF connectionTtsState[c] THEN MIC ELSE BOOK,
   location |-> loc, text |-> transcript]

\* the transcript frame with the message forwarded to the gateway in it
TranscriptFramesForwarded(t, text) ==
  <<Frame("transcript", t, MIC \o text), Frame("status", t, "thinking")>>

\* the frames that show the transcript (index.ts:216-219)
TranscriptFrames(t, text) ==
  <<Frame("transcript", t, text), Frame("status", t, "thinking")>>

\* transcribeAudio resolves with text: index.ts:204-240 up to the await of
\* sendToGateway (index.ts:132-161)
TranscribeOk(t, text) ==
  /\ UNCHANGED callVars
  /\ UNCHANGED resVars
  /\ UNCHANGED connVars
  /\ UNCHANGED wsVars
  /\ UNCHANGED gwVars
  /\ turns[t].pc = "transcribing"
  /\ LET c == turns[t].conn
         tr == [turns[t] EXCEPT !.transcript = text]
     IN IF FilteredOf[text]
        THEN /\ sent' = SendAll(c, <<Frame("audio_end", t, "")>>)
             /\ turns' = [turns EXCEPT ![t] = [tr EXCEPT !.pc = "done"]]
             /\ UNCHANGED <<keepaliveIntervals, pendingRequests, gwInbox>>
        ELSE LET head == TranscriptFrames(t, text)
                 message == ForwardedMessage(c, turns[t].location, text)
             IN IF ~connected
                THEN /\ sent' = SendAll(c, head \o CatchFrames(t, GatewayNotConnected))
                     /\ turns' = [turns EXCEPT ![t] =
                          [tr EXCEPT !.pc = "done", !.message = message,
                                     !.error = GatewayNotConnected]]
                     /\ keepaliveIntervals' = keepaliveIntervals \ {c}
                     /\ UNCHANGED <<pendingRequests, gwInbox>>
                ELSE /\ sent' = SendAll(c, head)
                     /\ turns' = [turns EXCEPT ![t] =
                          [tr EXCEPT !.pc = "awaiting", !.message = message,
                                     !.timeout = TRUE]]
                     /\ keepaliveIntervals' = keepaliveIntervals \cup {c}
                     /\ pendingRequests' = Append(pendingRequests, t)
                     /\ gwInbox' = Append(gwInbox, t)
  /\ UNCHANGED <<readyState, connectionAuthed, connectionTtsState, connectionRateLimit,
                 authTimeout, connected, now, msgs, kaFired>>

\* a transcription failure taken for silence: the turn ends without an error frame
TranscribeFailSilent(t, m) ==
  /\ UNCHANGED callVars
  /\ UNCHANGED resVars
  /\ UNCHANGED connVars
  /\ UNCHANGED wsVars
  /\ UNCHANGED gwVars
  /\ turns[t].pc = "transcribing"
  /\ sent' = SendAll(turns[t].conn, <<Frame("audio_end", t, "")>>)
  /\ turns' = [turns EXCEPT ![t] = [@ EXCEPT !.pc = "done", !.error = m]]
  /\ UNCHANGED <<readyState, connectionAuthed, connectionTtsState, connectionRateLimit,
                 authTimeout, keepaliveIntervals, pendingRequests, connected, gwInbox,
                 now, msgs, kaFired>>

\* transcribeAudio rejects
TranscribeFail(t, m) ==
  /\ UNCHANGED callVars
  /\ UNCHANGED resVars
  /\ UNCHANGED connVars
  /\ UNCHANGED wsVars
  /\ UNCHANGED gwVars
  /\ turns[t].pc = "transcribing"
  /\ sent' = SendAll(turns[t].conn, CatchFrames(t, m))
  /\ turns' = [turns EXCEPT ![t] = [@ EXCEPT !.pc = "done", !.error = m]]
  /\ UNCHANGED <<readyState, connectionAuthed, connectionTtsState, connectionRateLimit,
                 authTimeout, keepaliveIntervals, pendingRequests, connected, gwInbox,
                 now, msgs, kaFired>>

\* the interval callback of startKeepalive (index.ts:166-174)
KeepaliveFires(c) ==
  /\ UNCHANGED callVars
  /\ UNCHANGED resVars
  /\ UNCHANGED connVars
  /\ UNCHANGED wsVars
  /\ UNCHANGED gwVars
  /\ c \in keepaliveIntervals
  /\ kaFired < MaxKeepalive
  /\ kaFired' = kaFired + 1
  /\ sent' = IF \E i \in 1..Len(pendingRequests) : turns[pendingRequests[i]].conn = c
             THEN SendAll(c, <<Frame("status", 0, "thinking")>>)
             ELSE sent
  /\ UNCHANGED <<readyState, connectionAuthed, connectionTtsState, connectionRateLimit,
                 authTimeout, keepaliveIntervals, pendingRequests, turns, connected,
                 gwInbox, now, msgs>>

\* the rejection of the promise of sendToGateway reaches the turn: the finally
\* (index.ts:238-240) and the catch (index.ts:300-308)
Rejected(t, m) ==
  /\ sent' = SendAll(turns[t].conn, CatchFrames(t, m))
  /\ turns' = [turns EXCEPT ![t] =
                 [@ EXCEPT !.pc = "done", !.timeout = FALSE, !.error = m]]
  /\ keepaliveIntervals' = keepaliveIntervals \ {turns[t].conn}

\* the expiry timer of a pending request (index.ts:142-147)
GatewayTimeoutFires(t) ==
  /\ UNCHANGED callVars
  /\ UNCHANGED resVars
  /\ UNCHANGED connVars
  /\ UNCHANGED wsVars
  /\ UNCHANGED gwVars
  /\ turns[t].timeout
  /\ pendingRequests' = Without(pendingRequests, {t})
  /\ IF turns[t].pc = "awaiting"
     THEN Rejected(t, GatewayTimeoutError)
     ELSE /\ turns' = [turns EXCEPT ![t] = [@ EXCEPT !.timeout = FALSE]]
          /\ UNCHANGED <<sent, keepaliveIntervals>>
  /\ UNCHANGED <<readyState, connectionAuthed, connectionTtsState, connectionRateLimit,
                 authTimeout, connected, gwInbox, now, msgs, kaFired>>

\* the catch of sendMessage that rejects and leaves the request queued
GwSendFailQueued(t, m) ==
  /\ UNCHANGED callVars
  /\ UNCHANGED resVars
  /\ UNCHANGED connVars
  /\ UNCHANGED wsVars
  /\ UNCHANGED gwVars
  /\ connected
  /\ InQueue(gwInbox, t)
  /\ gwInbox' = Without(gwInbox, {t})
  /\ UNCHANGED pendingRequests
  /\ IF turns[t].pc = "awaiting"
     THEN /\ sent' = SendAll(turns[t].conn, CatchFrames(t, m))
          /\ turns' = [turns EXCEPT ![t] = [@ EXCEPT !.pc = "done", !.error = m]]
          /\ keepaliveIntervals' = keepaliveIntervals \ {turns[t].conn}
     ELSE UNCHANGED <<turns, sent, keepaliveIntervals>>
  /\ UNCHANGED <<readyState, connectionAuthed, connectionTtsState, connectionRateLimit,
                 authTimeout, connected, now, msgs, kaFired>>

\* chat.send is answered with an error: the catch of sendMessage (index.ts:154-159)
GwSendFail(t, m) ==
  /\ UNCHANGED callVars
  /\ UNCHANGED resVars
  /\ UNCHANGED connVars
  /\ UNCHANGED wsVars
  /\ UNCHANGED gwVars
  /\ connected
  /\ InQueue(gwInbox, t)
  /\ gwInbox' = Without(gwInbox, {t})
  /\ pendingRequests' = Without(pendingRequests, {t})
  /\ IF turns[t].pc = "awaiting"
     THEN Rejected(t, m)
     ELSE /\ turns' = [turns EXCEPT ![t] = [@ EXCEPT !.timeout = FALSE]]
          /\ UNCHANGED <<sent, keepaliveIntervals>>
  /\ UNCHANGED <<readyState, connectionAuthed, connectionTtsState, connectionRateLimit,
                 authTimeout, connected, now, msgs, kaFired>>

\* the callback without the clearTimeout before it
ResolvedTimerArmed(t, r, re) ==
  LET c == turns[t].conn
      response == [text |-> r.text, mediaUrls |-> r.mediaUrls, re |-> re]
      displayText == IF response.text # "" THEN response.text ELSE "(audio response)"
      head == <<Frame("response", t, displayText), Frame("status", t, "speaking")>>
      tr == [turns[t] EXCEPT !.response = response, !.resolved = TRUE]
      next == IF response.text # ""
              THEN IF SpokenTextOf[r.text] # "" THEN "tts" ELSE "done"
              ELSE IF Len(response.mediaUrls) > 0 THEN "readfile" ELSE "done"
  IN /\ sent' = SendAll(c, IF next = "done"
                           THEN head \o <<Frame("audio_end", t, "")>> ELSE head)
     /\ turns' = [turns EXCEPT ![t] = [tr EXCEPT !.pc = next]]
     /\ keepaliveIntervals' = keepaliveIntervals \ {c}

\* the promise of sendToGateway resolves: index.ts:238-297 up to the next await
Resolved(t, r, re) ==
  LET c == turns[t].conn
      response == [text |-> r.text, mediaUrls |-> r.mediaUrls, re |-> re]
      displayText == IF response.text # "" THEN response.text ELSE "(audio response)"
      head == <<Frame("response", t, displayText), Frame("status", t, "speaking")>>
      tr == [turns[t] EXCEPT !.response = response, !.resolved = TRUE,
                             !.timeout = FALSE]
      next == IF response.text # ""
              THEN IF SpokenTextOf[r.text] # "" THEN "tts" ELSE "done"
              ELSE IF Len(response.mediaUrls) > 0 THEN "readfile" ELSE "done"
  IN /\ sent' = SendAll(c, IF next = "done"
                           THEN head \o <<Frame("audio_end", t, "")>> ELSE head)
     /\ turns' = [turns EXCEPT ![t] = [tr EXCEPT !.pc = next]]
     /\ keepaliveIntervals' = keepaliveIntervals \ {c}

\* an onResponse that takes the newest request of the queue
onResponseNewest(r, re) ==
  IF pendingRequests # <<>>
  THEN /\ pendingRequests' = SubSeq(pendingRequests, 1, Len(pendingRequests) - 1)
       /\ Resolved(pendingRequests[Len(pendingRequests)], r, re)
  ELSE UNCHANGED <<pendingRequests, sent, turns, keepaliveIntervals>>

\* onResponse of initGateway (index.ts:101-111)
onResponse(r, re) ==
  IF pendingRequests # <<>>
  THEN /\ pendingRequests' = Tail(pendingRequests)
       /\ Resolved(Head(pendingRequests), r, re)
  ELSE UNCHANGED <<pendingRequests, sent, turns, keepaliveIntervals>>

\* The gateway finishes the run of the oldest chat.send it holds and the gateway
\* client emits its GatewayResponse r (gateway.ts:288-307); re, kept with the
\* response, is the turn whose message the gateway answered.
GwAnswer(r) ==
  /\ UNCHANGED callVars
  /\ UNCHANGED resVars
  /\ UNCHANGED connVars
  /\ UNCHANGED wsVars
  /\ UNCHANGED gwVars
  /\ connected
  /\ gwInbox # <<>>
  /\ gwInbox' = Tail(gwInbox)
  /\ onResponse(r, Head(gwInbox))
  /\ UNCHANGED <<readyState, connectionAuthed, connectionTtsState, connectionRateLimit,
                 authTimeout, connected, now, msgs, kaFired>>

\* The run ends with neither text nor media: no GatewayResponse (gateway.ts:300-311).
GwFinalEmpty ==
  /\ UNCHANGED callVars
  /\ UNCHANGED resVars
  /\ UNCHANGED connVars
  /\ UNCHANGED wsVars
  /\ UNCHANGED gwVars
  /\ connected
  /\ gwInbox # <<>>
  /\ gwInbox' = Tail(gwInbox)
  /\ UNCHANGED <<readyState, connectionAuthed, connectionTtsState, connectionRateLimit,
                 authTimeout, keepaliveIntervals, pendingRequests, turns, sent, connected,
                 now, msgs, kaFired>>

\* an onChunk that keeps the chunk instead of sending it
TtsChunkBuffered(t) ==
  /\ UNCHANGED callVars
  /\ UNCHANGED resVars
  /\ UNCHANGED connVars
  /\ UNCHANGED wsVars
  /\ UNCHANGED gwVars
  /\ turns[t].pc = "tts"
  /\ turns[t].chunks < MaxChunks
  /\ turns' = [turns EXCEPT ![t] = [@ EXCEPT !.chunks = @ + 1]]
  /\ UNCHANGED <<readyState, connectionAuthed, connectionTtsState, connectionRateLimit,
                 authTimeout, keepaliveIntervals, pendingRequests, connected, gwInbox,
                 now, msgs, kaFired, sent>>

\* onChunk of generateAndStreamTTS (index.ts:346-351)
TtsChunk(t) ==
  /\ UNCHANGED callVars
  /\ UNCHANGED resVars
  /\ UNCHANGED connVars
  /\ UNCHANGED wsVars
  /\ UNCHANGED gwVars
  /\ turns[t].pc = "tts"
  /\ turns[t].chunks < MaxChunks
  /\ turns' = [turns EXCEPT ![t] = [@ EXCEPT !.chunks = @ + 1]]
  /\ sent' = SendAll(turns[t].conn, <<AudioFrame(t, turns[t].chunks + 1)>>)
  /\ UNCHANGED <<readyState, connectionAuthed, connectionTtsState, connectionRateLimit,
                 authTimeout, keepaliveIntervals, pendingRequests, connected, gwInbox,
                 now, msgs, kaFired>>

\* streamTTS resolves (index.ts:276, 296-298)
TtsEnd(t) ==
  /\ UNCHANGED callVars
  /\ UNCHANGED resVars
  /\ UNCHANGED connVars
  /\ UNCHANGED wsVars
  /\ UNCHANGED gwVars
  /\ turns[t].pc = "tts"
  /\ turns' = [turns EXCEPT ![t] = [@ EXCEPT !.pc = "done"]]
  /\ sent' = SendAll(turns[t].conn, <<Frame("audio_end", t, "")>>)
  /\ UNCHANGED <<readyState, connectionAuthed, connectionTtsState, connectionRateLimit,
                 authTimeout, keepaliveIntervals, pendingRequests, connected, gwInbox,
                 now, msgs, kaFired>>

\* streamTTS rejects
TtsFail(t, m) ==
  /\ UNCHANGED callVars
  /\ UNCHANGED resVars
  /\ UNCHANGED connVars
  /\ UNCHANGED wsVars
  /\ UNCHANGED gwVars
  /\ turns[t].pc = "tts"
  /\ turns' = [turns EXCEPT ![t] = [@ EXCEPT !.pc = "done", !.error = m]]
  /\ sent' = SendAll(turns[t].conn, CatchFrames(t, m))
  /\ UNCHANGED <<readyState, connectionAuthed, connectionTtsState, connectionRateLimit,
                 authTimeout, keepaliveIntervals, pendingRequests, connected, gwInbox,
                 now, msgs, kaFired>>

\* readFile of the gateway's audio settles (index.ts:285-298)
ReadFileDone(t, ok) ==
  /\ UNCHANGED callVars
  /\ UNCHANGED resVars
  /\ UNCHANGED connVars
  /\ UNCHANGED wsVars
  /\ UNCHANGED gwVars
  /\ turns[t].pc = "readfile"
  /\ turns' = [turns EXCEPT ![t] = [@ EXCEPT !.pc = "done", !.chunks = IF ok THEN 1 ELSE 0]]
  /\ sent' = SendAll(turns[t].conn,
                     IF ok THEN <<AudioFrame(t, 1), Frame("audio_end", t, "")>>
                     ELSE <<Frame("audio_end", t, "")>>)
  /\ UNCHANGED <<readyState, connectionAuthed, connectionTtsState, connectionRateLimit,
                 authTimeout, keepaliveIntervals, pendingRequests, connected, gwInbox,
                 now, msgs, kaFired>>

(* ---------------------------------------------------------------------- *)
(* The gateway client's event handlers (gateway.ts:199-312)                *)
(* ---------------------------------------------------------------------- *)
SESSION_KEY == "agent:main:main"
\* the run id of a payload that names none
UNKNOWN == 0
\* the run of the first turn's message, and the run without an id
RunIds == {1, UNKNOWN}
\* p.sessionKey: ours, ours with the gateway's prefix, another session's, absent
SessionKeys == {SESSION_KEY, "agent:main:" \o SESSION_KEY, "agent:main:other", ""}

\* handlers without the test of the session key
ExpectedAny(sessionKey) == TRUE

\* expectedKeys.includes(p.sessionKey || '') (gateway.ts:211-215, 258-263)
Expected(sessionKey) == sessionKey \in {SESSION_KEY, "agent:main:" \o SESSION_KEY}

\* Map.has, Map.get with the value of a missing entry, Map.set, Map.delete
Has(buffer, runId) == runId \in DOMAIN buffer
Get(buffer, runId, missing) == IF Has(buffer, runId) THEN buffer[runId] ELSE missing
Set(buffer, runId, v) ==
  [x \in DOMAIN buffer \cup {runId} |-> IF x = runId THEN v ELSE buffer[x]]
Delete(buffer, runId) == [x \in DOMAIN buffer \ {runId} |-> buffer[x]]

\* u.endsWith(suffix)
EndsWith(u, suffix) ==
  Len(u) >= Len(suffix) /\ SubSeq(u, Len(u) - Len(suffix) + 1, Len(u)) = suffix

\* payloads of agent events
AgentPayloads ==
  [runId : RunIds, sessionKey : SessionKeys, stream : {"assistant", "tool"},
   text : {"", "Sunny and 20C"},
   mediaUrls : {<<>>, <<"/tmp/reply.wav", "/tmp/reply.mp3">>}]

\* payloads of chat events; role "" and content <<>>: the payload has no message
ChatPayloads ==
  [runId : RunIds, sessionKey : SessionKeys, state : {"delta", "final"},
   role : {"assistant", "user"},
   content : {<<>>,
              <<[type |-> "text", text |-> "Sunny"]>>,
              <<[type |-> "text", text |-> "Sunny"],
                [type |-> "image", text |-> ""],
                [type |-> "text", text |-> " and 20C"]>>}]

\* handleAgentEvent (gateway.ts:199-241)
AgentEvent(p) ==
  /\ UNCHANGED callVars
  /\ UNCHANGED resVars
  /\ UNCHANGED connVars
  /\ UNCHANGED wsVars
  /\ connected
  /\ gwFrame' = [event |-> "agent", sessionKey |-> p.sessionKey, state |-> "",
                 runId |-> p.runId,
                 text |-> IF Expected(p.sessionKey) /\ p.stream = "assistant"
                          THEN p.text ELSE ""]
  /\ IF Expected(p.sessionKey) /\ p.stream = "assistant"
     THEN /\ responseBuffer' =
               IF p.text # "" /\ Len(p.text) > Len(Get(responseBuffer, p.runId, ""))
               THEN Set(responseBuffer, p.runId, p.text)
               ELSE responseBuffer
          /\ LET mp3Urls == SelectSeq(p.mediaUrls, LAMBDA u : EndsWith(u, ".mp3"))
             IN mediaUrlsBuffer' = IF Len(mp3Urls) > 0
                                   THEN Set(mediaUrlsBuffer, p.runId, mp3Urls)
                                   ELSE mediaUrlsBuffer
     ELSE UNCHANGED <<responseBuffer, mediaUrlsBuffer>>
  /\ UNCHANGED <<readyState, connectionAuthed, connectionTtsState, connectionRateLimit,
                 authTimeout, keepaliveIntervals, pendingRequests, turns, sent, connected,
                 gwInbox, now, msgs, kaFired>>

RECURSIVE Join(_)
\* textParts.join('')
Join(parts) == IF parts = <<>> THEN "" ELSE Head(parts).text \o Join(Tail(parts))

\* handleChatEvent that keeps the latest text instead of the longest
handleChatEventLatest(p) ==
  LET runId == p.runId
      textParts == IF p.role = "assistant"
                   THEN SelectSeq(p.content, LAMBDA c : c.type = "text" /\ c.text # "")
                   ELSE <<>>
      fullText == Join(textParts)
      tracked == IF Len(textParts) > 0 /\
                    fullText # Get(responseBuffer, runId, "")
                 THEN Set(responseBuffer, runId, fullText)
                 ELSE responseBuffer
      final == p.state = "final"
      withText == Len(textParts) > 0 /\ final
      finalText == Get(tracked, runId, fullText)
      buffer1 == IF withText THEN Delete(tracked, runId) ELSE tracked
      media1 == IF withText THEN Delete(mediaUrlsBuffer, runId) ELSE mediaUrlsBuffer
      mediaOnly == final /\ Get(buffer1, runId, "") = "" /\ Has(media1, runId)
  IN [responseBuffer |-> IF final THEN Delete(buffer1, runId) ELSE buffer1,
      mediaUrlsBuffer |-> IF final THEN Delete(media1, runId) ELSE media1,
      fullText |-> fullText,
      emits |-> withText \/ mediaOnly,
      response |-> IF withText
                   THEN [text |-> finalText,
                         mediaUrls |-> Get(mediaUrlsBuffer, runId, <<>>)]
                   ELSE [text |-> "", mediaUrls |-> Get(media1, runId, <<>>)]]

\* What handleChatEvent (gateway.ts:268-311) does for a payload of our session:
\* the two buffers after it, and the GatewayResponse it emits, if any.
handleChatEvent(p) ==
  LET runId == p.runId
      textParts == IF p.role = "assistant"
                   THEN SelectSeq(p.content, LAMBDA c : c.type = "text" /\ c.text # "")
                   ELSE <<>>
      fullText == Join(textParts)
      tracked == IF Len(textParts) > 0 /\
                    Len(fullText) > Len(Get(responseBuffer, runId, ""))
                 THEN Set(responseBuffer, runId, fullText)
                 ELSE responseBuffer
      final == p.state = "final"
      withText == Len(textParts) > 0 /\ final
      finalText == Get(tracked, runId, fullText)
      buffer1 == IF withText THEN Delete(tracked, runId) ELSE tracked
      media1 == IF withText THEN Delete(mediaUrlsBuffer, runId) ELSE mediaUrlsBuffer
      mediaOnly == final /\ Get(buffer1, runId, "") = "" /\ Has(media1, runId)
  IN [responseBuffer |-> IF final THEN Delete(buffer1, runId) ELSE buffer1,
      mediaUrlsBuffer |-> IF final THEN Delete(media1, runId) ELSE media1,
      fullText |-> fullText,
      emits |-> withText \/ mediaOnly,
      response |-> IF withText
                   THEN [text |-> finalText,
                         mediaUrls |-> Get(mediaUrlsBuffer, runId, <<>>)]
                   ELSE [text |-> "", mediaUrls |-> Get(media1, runId, <<>>)]]

\* handleChatEvent (gateway.ts:246-312) with the onResponse it calls
ChatEvent(p) ==
  /\ UNCHANGED callVars
  /\ UNCHANGED resVars
  /\ UNCHANGED connVars
  /\ UNCHANGED wsVars
  /\ connected
  /\ gwFrame' = [event |-> "chat", sessionKey |-> p.sessionKey, state |-> p.state,
                 runId |-> p.runId,
                 text |-> IF Expected(p.sessionKey) THEN handleChatEvent(p).fullText
                          ELSE ""]
  /\ IF Expected(p.sessionKey)
     THEN LET e == handleChatEvent(p)
          IN /\ responseBuffer' = e.responseBuffer
             /\ mediaUrlsBuffer' = e.mediaUrlsBuffer
             /\ IF e.emits
                THEN onResponse(e.response, p.runId)
                ELSE UNCHANGED <<pendingRequests, sent, turns, keepaliveIntervals>>
             /\ gwInbox' = IF p.state = "final"
                           THEN Without(gwInbox, {p.runId}) ELSE gwInbox
     ELSE UNCHANGED <<responseBuffer, mediaUrlsBuffer, pendingRequests, sent, turns,
                      keepaliveIntervals, gwInbox>>
  /\ UNCHANGED <<readyState, connectionAuthed, connectionTtsState, connectionRateLimit,
                 authTimeout, connected, now, msgs, kaFired>>

(* ---------------------------------------------------------------------- *)
(* The upstream connection and the clock                                   *)
(* ---------------------------------------------------------------------- *)
\* the client after the 'close' event of its socket: the close handler
\* (gateway.ts:109-117) and the owner's onDisconnect, which arms one more
\* reconnect timer (index.ts:114-122)
onClose(gc) ==
  [gc EXCEPT !.ws = "CLOSED", !.connectPromise = "null", !.connectResolved = TRUE,
             !.request = 0, !.timeout = FALSE, !.fallback = FALSE,
             !.reconnect = gc.reconnect + 1, !.sockets = gc.sockets - 1]

\* the drop of the gateway connection that also fails what waits for an answer
GwDisconnectRejecting ==
  /\ UNCHANGED callVars
  /\ UNCHANGED resVars
  /\ UNCHANGED wsVars
  /\ UNCHANGED gwVars
  /\ connected
  /\ connected' = FALSE
  /\ gatewayClient' = onClose(gatewayClient)
  /\ pendingRequests' = <<>>
  /\ turns' = [t \in TurnIds |->
                 IF InQueue(pendingRequests, t)
                 THEN [turns[t] EXCEPT !.timeout = FALSE] ELSE turns[t]]
  /\ UNCHANGED <<readyState, connectionAuthed, connectionTtsState, connectionRateLimit,
                 authTimeout, keepaliveIntervals, sent, gwInbox,
                 now, msgs, kaFired, listening>>

\* ws.on('close') of the gateway client (gateway.ts:109-117)
GwDisconnect ==
  /\ UNCHANGED callVars
  /\ UNCHANGED resVars
  /\ UNCHANGED wsVars
  /\ UNCHANGED gwVars
  /\ connected
  /\ connected' = FALSE
  /\ gatewayClient' = onClose(gatewayClient)
  /\ UNCHANGED listening
  /\ UNCHANGED <<readyState, connectionAuthed, connectionTtsState, connectionRateLimit,
                 authTimeout, keepaliveIntervals, pendingRequests, turns, sent, gwInbox,
                 now, msgs, kaFired>>

\* a reconnect that succeeds, from its timer (index.ts:117-121) to
\* finishConnect(true) (gateway.ts:80-87), in one step
GwReconnect ==
  /\ UNCHANGED callVars
  /\ UNCHANGED resVars
  /\ UNCHANGED wsVars
  /\ UNCHANGED gwVars
  /\ ~connected
  /\ connected' = TRUE
  /\ gatewayClient' = ClientConnected
  /\ UNCHANGED listening
  /\ UNCHANGED <<readyState, connectionAuthed, connectionTtsState, connectionRateLimit,
                 authTimeout, keepaliveIntervals, pendingRequests, turns, sent, gwInbox,
                 now, msgs, kaFired>>

\* everything of the server but the state of the gateway connection
bridgeVars ==
  <<readyState, connectionAuthed, connectionTtsState, connectionRateLimit, authTimeout,
    keepaliveIntervals, pendingRequests, turns, sent, gwInbox, now, msgs, kaFired>>

\* connect() (gateway.ts:60-78): nothing once connected or while a promise is
\* held, else a new socket, a new promise and the connection timeout
connect(gc) ==
  IF connected \/ gc.connectPromise # "null" THEN gc
  ELSE [gc EXCEPT !.ws = "CONNECTING", !.connectPromise = "pending",
                  !.connectResolved = FALSE, !.challenges = 0, !.connects = 0,
                  !.request = 0,
                  !.timeout = TRUE, !.fallback = FALSE,
                  !.sockets = gc.sockets + 1]

\* the gateway client while initGateway awaits its first connect()
\* (index.ts:96-126, gateway.ts:44-51)
ClientStarting ==
  [ws |-> "CONNECTING", connectPromise |-> "pending", connectResolved |-> FALSE,
   connectNonce |-> FALSE, challenges |-> 0, connects |-> 0, request |-> 0,
   timeout |-> TRUE, fallback |-> FALSE, reconnect |-> 0, sockets |-> 1]

\* the reconnect timer armed by onDisconnect fires (index.ts:117-121)
ReconnectTimerFires ==
  /\ UNCHANGED callVars
  /\ UNCHANGED resVars
  /\ UNCHANGED wsVars
  /\ UNCHANGED gwVars
  /\ gatewayClient.reconnect > 0
  /\ gatewayClient' =
       LET gc == [gatewayClient EXCEPT !.reconnect = gatewayClient.reconnect - 1]
       IN IF ~connected THEN connect(gc) ELSE gc
  /\ UNCHANGED <<bridgeVars, connected, listening>>

\* ws.on('open'): arms the timer that waits for the challenge (gateway.ts:93-102)
WsOpen ==
  /\ UNCHANGED callVars
  /\ UNCHANGED resVars
  /\ UNCHANGED wsVars
  /\ UNCHANGED gwVars
  /\ gatewayClient.ws = "CONNECTING"
  /\ gatewayClient' = [gatewayClient EXCEPT !.ws = "OPEN", !.fallback = TRUE]
  /\ UNCHANGED <<bridgeVars, connected, listening>>

\* the socket fails before it opens: 'error' rejects the promise
\* (gateway.ts:119-122), then 'close' runs the close handler (gateway.ts:109-117);
\* main goes on to listen once the first connect() has settled (index.ts:498-507)
WsConnectFail ==
  /\ UNCHANGED callVars
  /\ UNCHANGED resVars
  /\ UNCHANGED wsVars
  /\ UNCHANGED gwVars
  /\ gatewayClient.ws = "CONNECTING"
  /\ gatewayClient' = onClose(gatewayClient)
  /\ connected' = FALSE
  /\ listening' = TRUE
  /\ UNCHANGED bridgeVars

\* the timer armed on 'open' fires: the connect request is sent if no challenge
\* was ever received and the attempt is not settled (gateway.ts:96-101)
NoChallengeTimerFires ==
  /\ UNCHANGED callVars
  /\ UNCHANGED resVars
  /\ UNCHANGED wsVars
  /\ UNCHANGED gwVars
  /\ gatewayClient.fallback
  /\ gatewayClient' =
       IF ~gatewayClient.connectNonce /\ ~gatewayClient.connectResolved
       THEN [gatewayClient EXCEPT !.fallback = FALSE,
                                  !.connects = gatewayClient.connects + 1,
                                  !.request = gatewayClient.request + 1]
       ELSE [gatewayClient EXCEPT !.fallback = FALSE]
  /\ UNCHANGED <<bridgeVars, connected, listening>>

\* the gateway's connect.challenge event: the nonce is kept and the connect
\* request is sent (gateway.ts:145-155)
ConnectChallenge ==
  /\ UNCHANGED callVars
  /\ UNCHANGED resVars
  /\ UNCHANGED wsVars
  /\ UNCHANGED gwVars
  /\ gatewayClient.ws = "OPEN"
  /\ gatewayClient.challenges < MaxChallenges
  /\ gatewayClient' = [gatewayClient EXCEPT !.connectNonce = TRUE,
                                            !.challenges = gatewayClient.challenges + 1,
                                            !.connects = gatewayClient.connects + 1,
                                            !.request = gatewayClient.request + 1]
  /\ UNCHANGED <<bridgeVars, connected, listening>>

\* the successful answer handled without the guard of finishConnect
ConnectAcceptedAlways ==
  /\ UNCHANGED callVars
  /\ UNCHANGED resVars
  /\ UNCHANGED wsVars
  /\ UNCHANGED gwVars
  /\ gatewayClient.ws = "OPEN"
  /\ gatewayClient.request > 0
  /\ gatewayClient' = [gatewayClient EXCEPT !.request = gatewayClient.request - 1,
                              !.connectResolved = TRUE, !.timeout = FALSE,
                              !.connectPromise = "resolved"]
  /\ connected' = TRUE
  /\ listening' = TRUE
  /\ UNCHANGED bridgeVars

\* the gateway answers the connect request with ok: finishConnect(true)
\* (gateway.ts:179-186, 80-87)
ConnectAccepted ==
  /\ UNCHANGED callVars
  /\ UNCHANGED resVars
  /\ UNCHANGED wsVars
  /\ UNCHANGED gwVars
  /\ gatewayClient.ws = "OPEN"
  /\ gatewayClient.request > 0
  /\ IF gatewayClient.connectResolved
     THEN /\ gatewayClient' = [gatewayClient EXCEPT !.request = gatewayClient.request - 1]
          /\ UNCHANGED <<connected, listening>>
     ELSE /\ gatewayClient' = [gatewayClient EXCEPT !.request = gatewayClient.request - 1,
                                 !.connectResolved = TRUE, !.timeout = FALSE,
                                 !.connectPromise = "resolved"]
          /\ connected' = TRUE
          /\ listening' = TRUE
  /\ UNCHANGED bridgeVars

\* the gateway answers the connect request with an error: finishConnect(false)
\* rejects the promise and leaves the socket as it is (gateway.ts:187, 88-90)
ConnectRejected ==
  /\ UNCHANGED callVars
  /\ UNCHANGED resVars
  /\ UNCHANGED wsVars
  /\ UNCHANGED gwVars
  /\ gatewayClient.ws = "OPEN"
  /\ gatewayClient.request > 0
  /\ IF gatewayClient.connectResolved
     THEN /\ gatewayClient' = [gatewayClient EXCEPT !.request = gatewayClient.request - 1]
          /\ UNCHANGED listening
     ELSE /\ gatewayClient' = [gatewayClient EXCEPT !.request = gatewayClient.request - 1,
                                 !.connectResolved = TRUE, !.timeout = FALSE,
                                 !.connectPromise = "rejected"]
          /\ listening' = TRUE
  /\ UNCHANGED <<bridgeVars, connected>>

\* the connection timeout that gives the attempt up and schedules the next one
\* itself, without waiting for the socket to close
ConnectTimeoutFiresRetrying ==
  /\ UNCHANGED callVars
  /\ UNCHANGED resVars
  /\ UNCHANGED wsVars
  /\ UNCHANGED gwVars
  /\ gatewayClient.timeout
  /\ gatewayClient' =
       IF ~gatewayClient.connectResolved
       THEN [gatewayClient EXCEPT !.timeout = FALSE, !.connectResolved = TRUE,
                                  !.connectPromise = "null", !.ws = "CLOSING",
                                  !.reconnect = gatewayClient.reconnect + 1]
       ELSE [gatewayClient EXCEPT !.timeout = FALSE]
  /\ listening' = TRUE
  /\ UNCHANGED <<bridgeVars, connected>>

\* the connection timeout fires: the promise is rejected and the socket is
\* closed (gateway.ts:72-78)
ConnectTimeoutFires ==
  /\ UNCHANGED callVars
  /\ UNCHANGED resVars
  /\ UNCHANGED wsVars
  /\ UNCHANGED gwVars
  /\ gatewayClient.timeout
  /\ gatewayClient' =
       IF ~gatewayClient.connectResolved
       THEN [gatewayClient EXCEPT !.timeout = FALSE, !.connectResolved = TRUE,
                                  !.connectPromise = "rejected", !.ws = "CLOSING"]
       ELSE [gatewayClient EXCEPT !.timeout = FALSE]
  /\ listening' = TRUE
  /\ UNCHANGED <<bridgeVars, connected>>

\* 'close' of a socket whose handshake has not succeeded (gateway.ts:109-117)
GwSocketClose ==
  /\ UNCHANGED callVars
  /\ UNCHANGED resVars
  /\ UNCHANGED wsVars
  /\ UNCHANGED gwVars
  /\ ~connected
  /\ gatewayClient.ws \in {"OPEN", "CLOSING"}
  /\ gatewayClient' = onClose(gatewayClient)
  /\ connected' = FALSE
  /\ listening' = TRUE
  /\ UNCHANGED bridgeVars

(* ---------------------------------------------------------------------- *)
(* Control requests and their response frames (gateway.ts:178-190, 364-381) *)
(* ---------------------------------------------------------------------- *)
Methods == {"connect", "chat.send"}
ResErrors == {"", "rate limited"}

\* the ids request() has used so far
Issued == {id \in ReqIds : id \in DOMAIN pending \/ settled[id] # <<>>}

\* how a response frame settles the promise of its request (gateway.ts:184-188)
Settlement(ok, message) ==
  IF ok THEN [outcome |-> "resolved", message |-> ""]
  ELSE [outcome |-> "rejected",
        message |-> IF message # "" THEN message ELSE "Unknown error"]

\* request(method, params) on an open socket: a fresh id enters the pending
\* map and the frame is sent (gateway.ts:364-381)
Request(method) ==
  /\ UNCHANGED callVars
  /\ UNCHANGED connVars
  /\ UNCHANGED wsVars
  /\ UNCHANGED gwVars
  /\ gatewayClient.ws = "OPEN"
  /\ Issued # ReqIds
  /\ LET id == CHOOSE i \in ReqIds \ Issued : \A j \in ReqIds \ Issued : i <= j
     IN pending' = [i \in DOMAIN pending \cup {id} |->
                      IF i = id THEN method ELSE pending[i]]
  /\ UNCHANGED <<settled, lastRes>>
  /\ UNCHANGED <<bridgeVars, connected>>

\* the res branch that settles without deleting the entry
ResFrameKeeps(id, ok, message) ==
  /\ UNCHANGED callVars
  /\ UNCHANGED connVars
  /\ UNCHANGED wsVars
  /\ UNCHANGED gwVars
  /\ lastRes' = [id |-> id, ok |-> ok, message |-> message]
  /\ IF id \in DOMAIN pending
     THEN /\ pending' = pending
          /\ settled' = [settled EXCEPT ![id] = Append(@, Settlement(ok, message))]
     ELSE UNCHANGED <<pending, settled>>
  /\ UNCHANGED <<bridgeVars, connected>>

\* a response frame arrives: the res branch of handleMessage (gateway.ts:178-190)
ResFrame(id, ok, message) ==
  /\ UNCHANGED callVars
  /\ UNCHANGED connVars
  /\ UNCHANGED wsVars
  /\ UNCHANGED gwVars
  /\ lastRes' = [id |-> id, ok |-> ok, message |-> message]
  /\ IF id \in DOMAIN pending
     THEN /\ pending' = [i \in DOMAIN pending \ {id} |-> pending[i]]
          /\ settled' = [settled EXCEPT ![id] = Append(@, Settlement(ok, message))]
     ELSE UNCHANGED <<pending, settled>>
  /\ UNCHANGED <<bridgeVars, connected>>

\* time passes
Tick ==
  /\ UNCHANGED callVars
  /\ UNCHANGED resVars
  /\ UNCHANGED connVars
  /\ UNCHANGED wsVars
  /\ UNCHANGED gwVars
  /\ now < MaxTicks * TickMs
  /\ now' = now + TickMs
  /\ UNCHANGED <<readyState, connectionAuthed, connectionTtsState, connectionRateLimit,
                 authTimeout, keepaliveIntervals, pendingRequests, turns, sent, connected,
                 gwInbox, msgs, kaFired>>

\* what clients do before and around authentication, and the auth timer
NextAuth ==
  \/ \E c \in Conns : Connect(c)
  \/ \E c \in Conns : AuthTimeoutFires(c)
  \/ \E c \in Conns, token \in Tokens : RecvAuth(c, token)
  \/ \E c \in Conns : RecvPing(c)
  \/ \E c \in Conns, enabled \in BOOLEAN : RecvTtsState(c, enabled)
  \/ \E c \in Conns : RecvUnknown(c)
  \/ \E c \in Conns : RecvMalformed(c)
  \/ \E c \in Conns, len \in AudioLens, loc \in Locations : RecvAudio(c, len, loc)
  \/ \E c \in Conns : OnClose(c)

\* the turns of accepted connections, the adapters and the gateway
NextTurns ==
  \/ \E c \in Conns, len \in AudioLens, loc \in Locations : RecvAudio(c, len, loc)
  \/ \E c \in Conns : OnClose(c)
  \/ \E t \in TurnIds, text \in Transcripts : TranscribeOk(t, text)
  \/ \E t \in TurnIds, m \in TranscriptionErrors : TranscribeFail(t, m)
  \/ \E c \in Conns : KeepaliveFires(c)
  \/ \E t \in TurnIds : GatewayTimeoutFires(t)
  \/ \E t \in TurnIds, m \in GatewaySendErrors : GwSendFail(t, m)
  \/ \E r \in GwResponses : GwAnswer(r)
  \/ GwFinalEmpty
  \/ \E t \in TurnIds : turns[t].chunks < MaxTurnsChunks /\ TtsChunk(t)
  \/ \E t \in TurnIds : TtsEnd(t)
  \/ \E t \in TurnIds, m \in SynthesisErrors : TtsFail(t, m)
  \/ \E t \in TurnIds, ok \in BOOLEAN : ReadFileDone(t, ok)
  \/ GwDisconnect
  \/ GwReconnect

\* turns that run straight to their synthesis, with every chunk of it
NextStream ==
  \/ \E c \in Conns, len \in AudioLens, loc \in Locations : RecvAudio(c, len, loc)
  \/ \E c \in Conns : OnClose(c)
  \/ \E t \in TurnIds, text \in Transcripts : TranscribeOk(t, text)
  \/ \E r \in GwResponses : GwAnswer(r)
  \/ \E t \in TurnIds : TtsChunk(t)
  \/ \E t \in TurnIds : TtsEnd(t)
  \/ \E t \in TurnIds, m \in SynthesisErrors : TtsFail(t, m)

\* event frames reaching the gateway client while turns wait for their answer
NextGw ==
  \/ \E p \in AgentPayloads : AgentEvent(p)
  \/ \E p \in ChatPayloads : ChatEvent(p)

\* main has called initGateway, whose first connect() is under way; the server
\* does not listen yet (index.ts:490-507)
InitConn ==
  /\ readyState = [c \in Conns |-> "NONE"]
  /\ connectionAuthed = [c \in Conns |-> FALSE]
  /\ connectionTtsState = [c \in Conns |-> TRUE]
  /\ connectionRateLimit = [c \in Conns |-> NoLimit]
  /\ authTimeout = [c \in Conns |-> FALSE]
  /\ keepaliveIntervals = {}
  /\ pendingRequests = <<>>
  /\ turns = [t \in TurnIds |-> NoTurn]
  /\ sent = [c \in Conns |-> [t \in TurnIds \cup {0} |-> <<>>]]
  /\ connected = FALSE
  /\ gwInbox = <<>>
  /\ now = 0
  /\ msgs = 0
  /\ kaFired = 0
  /\ responseBuffer = NoEntries
  /\ mediaUrlsBuffer = NoEntries
  /\ gwFrame = NoFrame
  /\ wsErrors = {}
  /\ lastMsg = NoMsg
  /\ arg = ""
  /\ ret = NoCall
  /\ gatewayClient = ClientStarting
  /\ listening = FALSE
  /\ pending = NoPending
  /\ settled = [id \in ReqIds |-> <<>>]
  /\ lastRes = NoRes

\* the gateway connection from startup on, while clients come and go
NextConn ==
  \/ ReconnectTimerFires
  \/ WsOpen
  \/ WsConnectFail
  \/ NoChallengeTimerFires
  \/ ConnectChallenge
  \/ ConnectAccepted
  \/ ConnectRejected
  \/ ConnectTimeoutFires
  \/ GwSocketClose
  \/ GwDisconnect
  \/ \E c \in Conns : listening /\ Connect(c)
  \/ \E c \in Conns : OnClose(c)

SpecConn == InitConn /\ [][NextConn]_vars

\* timers fire and a closing socket closes; a gateway that accepts connections
\* again and again completes the handshake of one of them
ConnFairness ==
  /\ WF_vars(ReconnectTimerFires)
  /\ WF_vars(NoChallengeTimerFires)
  /\ WF_vars(ConnectTimeoutFires)
  /\ WF_vars(gatewayClient.ws = "CLOSING" /\ GwSocketClose)
  /\ SF_vars(WsOpen)
  /\ SF_vars(ConnectChallenge)
  /\ SF_vars(ConnectAccepted)

SpecConnFair == SpecConn /\ ConnFairness

\* control requests of a connected client and the response frames the gateway
\* sends, with ids the client issued or not
NextRes ==
  \/ \E method \in Methods : Request(method)
  \/ \E id \in ReqIds \cup {UnknownId}, ok \in BOOLEAN, message \in ResErrors :
       ResFrame(id, ok, message)

Next == NextAuth \/ NextTurns \/ NextGw \/ NextConn \/ NextRes \/ Tick

\* the server from its start
Spec == Init /\ [][Next]_vars

\* connections from accept to close, without the progress of their turns
SpecAuth == Init /\ [][NextAuth]_vars

\* Both connections were accepted and have authenticated; nothing else has happened.
InitAuthed ==
  /\ readyState = [c \in Conns |-> "OPEN"]
  /\ connectionAuthed = [c \in Conns |-> TRUE]
  /\ connectionTtsState = [c \in Conns |-> TRUE]
  /\ connectionRateLimit = [c \in Conns |-> NoLimit]
  /\ authTimeout = [c \in Conns |-> FALSE]
  /\ keepaliveIntervals = {}
  /\ pendingRequests = <<>>
  /\ turns = [t \in TurnIds |-> NoTurn]
  /\ sent = [c \in Conns |->
               [t \in TurnIds \cup {0} |->
                  IF t = 0 THEN <<Frame("status", 0, "transcribing")>> ELSE <<>>]]
  /\ connected = TRUE
  /\ gwInbox = <<>>
  /\ now = 0
  /\ msgs = 0
  /\ kaFired = 0
  /\ responseBuffer = NoEntries
  /\ mediaUrlsBuffer = NoEntries
  /\ gwFrame = NoFrame
  /\ wsErrors = {}
  /\ lastMsg = NoMsg
  /\ gatewayClient = ClientConnected
  /\ listening = TRUE
  /\ pending = NoPending
  /\ settled = [id \in ReqIds |-> <<>>]
  /\ lastRes = NoRes
  /\ arg = ""
  /\ ret = NoCall

\* the turns of two authenticated connections
SpecTurns == InitAuthed /\ [][NextTurns]_vars

\* the control requests of a connected client
SpecRes == InitAuthed /\ [][NextRes]_vars

\* The first connection's first turn has forwarded its message and waits for the
\* gateway (index.ts:132-152); the gateway client has handled no event yet.
InitGw ==
  /\ readyState = [c \in Conns |-> "OPEN"]
  /\ connectionAuthed = [c \in Conns |-> TRUE]
  /\ connectionTtsState = [c \in Conns |-> TRUE]
  /\ connectionRateLimit =
       [c \in Conns |-> IF c = 1
                        THEN [set |-> TRUE, count |-> 1, resetAt |-> RATE_LIMIT_WINDOW_MS]
                        ELSE NoLimit]
  /\ authTimeout = [c \in Conns |-> FALSE]
  /\ keepaliveIntervals = {1}
  /\ pendingRequests = <<1>>
  /\ turns = [t \in TurnIds |->
                IF t = 1
                THEN [NoTurn EXCEPT !.conn = 1, !.pc = "awaiting", !.accepted = TRUE,
                                    !.transcript = " What's the weather?",
                                    !.message = [prefix |-> MIC, location |-> "none",
                                                 text |-> " What's the weather?"],
                                    !.timeout = TRUE]
                ELSE NoTurn]
  /\ sent = [c \in Conns |->
               [t \in TurnIds \cup {0} |->
                  IF t = 0 THEN <<Frame("status", 0, "transcribing")>>
                  ELSE IF c = 1 /\ t = 1
                  THEN <<Frame("status", 1, "transcribing"),
                         Frame("transcript", 1, " What's the weather?"),
                         Frame("status", 1, "thinking")>>
                  ELSE <<>>]]
  /\ connected = TRUE
  /\ gwInbox = <<1>>
  /\ now = 0
  /\ msgs = 0
  /\ kaFired = 0
  /\ responseBuffer = NoEntries
  /\ mediaUrlsBuffer = NoEntries
  /\ gwFrame = NoFrame
  /\ wsErrors = {}
  /\ lastMsg = NoMsg
  /\ gatewayClient = ClientConnected
  /\ listening = TRUE
  /\ pending = NoPending
  /\ settled = [id \in ReqIds |-> <<>>]
  /\ lastRes = NoRes
  /\ arg = ""
  /\ ret = NoCall

\* the gateway client's event handlers while a turn waits
SpecGw == InitGw /\ [][NextGw]_vars


\* The adapters settle their promises, the expiry timer of a pending request
\* fires unless it is cleared, and readFile settles.
Fairness ==
  \A t \in TurnIds :
    /\ WF_vars((\E text \in Transcripts : TranscribeOk(t, text)) \/
               (\E m \in TranscriptionErrors : TranscribeFail(t, m)))
    /\ WF_vars(GatewayTimeoutFires(t))
    /\ WF_vars(TtsEnd(t) \/ (\E m \in SynthesisErrors : TtsFail(t, m)))
    /\ WF_vars(\E ok \in BOOLEAN : ReadFileDone(t, ok))

\* the turns of two authenticated connections, none of which stalls
SpecTurnsFair == SpecTurns /\ Fairness

\* pings, tts_state, unknown and malformed messages of authenticated connections
\* around the start of their turns
NextMsgs ==
  \/ \E c \in Conns, len \in AudioLens, loc \in Locations : RecvAudio(c, len, loc)
  \/ \E t \in TurnIds, text \in Transcripts : TranscribeOk(t, text)
  \/ \E c \in Conns : RecvPing(c)
  \/ \E c \in Conns, enabled \in BOOLEAN : RecvTtsState(c, enabled)
  \/ \E c \in Conns : RecvUnknown(c)
  \/ \E c \in Conns : RecvMalformed(c)

SpecMsgs == InitAuthed /\ [][NextMsgs]_vars

\* the auth timer of a connection fires unless it is cleared
SpecAuthFair == SpecAuth /\ \A c \in Conns : WF_vars(AuthTimeoutFires(c))

SpecStream == InitAuthed /\ [][NextStream]_vars

\* the server before any connection, whatever function is under study
ServerIdle ==
  /\ readyState = [c \in Conns |-> "NONE"]
  /\ connectionAuthed = [c \in Conns |-> FALSE]
  /\ connectionTtsState = [c \in Conns |-> TRUE]
  /\ connectionRateLimit = [c \in Conns |-> NoLimit]
  /\ authTimeout = [c \in Conns |-> FALSE]
  /\ keepaliveIntervals = {}
  /\ pendingRequests = <<>>
  /\ turns = [t \in TurnIds |-> NoTurn]
  /\ sent = [c \in Conns |-> [t \in TurnIds \cup {0} |-> <<>>]]
  /\ connected = TRUE
  /\ gwInbox = <<>>
  /\ now = 0
  /\ msgs = 0
  /\ kaFired = 0
  /\ responseBuffer = NoEntries
  /\ mediaUrlsBuffer = NoEntries
  /\ gwFrame = NoFrame
  /\ wsErrors = {}
  /\ lastMsg = NoMsg
  /\ gatewayClient = ClientConnected
  /\ listening = TRUE
  /\ pending = NoPending
  /\ settled = [id \in ReqIds |-> <<>>]
  /\ lastRes = NoRes

serverVars ==
  <<readyState, connectionAuthed, connectionTtsState, connectionRateLimit, authTimeout,
    keepaliveIntervals, pendingRequests, turns, sent, connected, gwInbox, now, msgs,
    kaFired, gwVars, wsVars, connVars, resVars>>

\* transcripts built as padding, words, punctuation, padding
Pads == {"", " "}
Puncts == {"", ".", "?"}
NoWords == {""}
NoiseWords == {"a", "I"}
HallucinationWords ==
  {"thank you", "Thanks for watching", "bye", "Um", "please subscribe to my channel",
   "see you later"}
SpeechWords == {"What is the weather", "hi", "thank you very much", "goodbye"}
Words == NoWords \cup NoiseWords \cup HallucinationWords \cup SpeechWords
FilterInputs ==
  {p \o w \o q \o r : p \in Pads, w \in Words, q \in Puncts, r \in Pads}

InitFilter ==
  /\ ServerIdle
  /\ arg \in FilterInputs
  /\ ret = NoCall

\* shouldFilter(transcript) is called (index.ts:208)
CallShouldFilter ==
  /\ ret = NoCall
  /\ ret' = Call("shouldFilter", shouldFilter(arg))
  /\ UNCHANGED <<serverVars, arg>>

SpecFilter == InitFilter /\ [][CallShouldFilter]_vars

\* response texts built as a line start, a body and a line end
CleanPrefixes == {"", "- ", "- - ", " - ", "1. - ", "# ", "* "}
CleanBodies ==
  {"Sunny and 20C", "see https://x.io now", "a\n\nb", "[docs](http://d.io)",
   "**bold** and *it*", BACKTICK \o "ls" \o BACKTICK, SMILE}
CleanSuffixes == {"", "\n", "\n- end", " #"}
CleanInputs ==
  {p \o b \o q : p \in CleanPrefixes, b \in CleanBodies, q \in CleanSuffixes}

InitClean ==
  /\ ServerIdle
  /\ arg \in CleanInputs
  /\ ret = NoCall

\* the cleaning chain is applied to the response text (index.ts:253-272)
CallSpokenText ==
  /\ ret = NoCall
  /\ ret' = Call("spokenText", spokenText(arg))
  /\ UNCHANGED <<serverVars, arg>>

\* the chain is applied to the text it has returned
CallSpokenTextAgain ==
  /\ ret.fn = "spokenText"
  /\ arg' = ret.value
  /\ ret' = Call("spokenText again", spokenText(ret.value))
  /\ UNCHANGED serverVars

NextClean == CallSpokenText \/ CallSpokenTextAgain

SpecClean == InitClean /\ [][NextClean]_vars

\* Connection 1 has had k audio messages accepted in the window that began at
\* time 0 (k near the limit) and their turns are over; connection 2 has had none.
InitRate ==
  /\ readyState = [c \in Conns |-> "OPEN"]
  /\ connectionAuthed = [c \in Conns |-> TRUE]
  /\ connectionTtsState = [c \in Conns |-> TRUE]
  /\ connectionRateLimit \in
       {[c \in Conns |-> IF c = 1
                         THEN [set |-> TRUE, count |-> k,
                               resetAt |-> RATE_LIMIT_WINDOW_MS]
                         ELSE NoLimit] :
          k \in (RATE_LIMIT_REQUESTS - 2)..RATE_LIMIT_REQUESTS}
  /\ authTimeout = [c \in Conns |-> FALSE]
  /\ keepaliveIntervals = {}
  /\ pendingRequests = <<>>
  /\ turns = [t \in TurnIds |-> NoTurn]
  /\ sent = [c \in Conns |->
               [t \in TurnIds \cup {0} |->
                  IF t = 0 THEN <<Frame("status", 0, "transcribing")>> ELSE <<>>]]
  /\ connected = TRUE
  /\ gwInbox = <<>>
  /\ now = 0
  /\ msgs = 0
  /\ kaFired = 0
  /\ responseBuffer = NoEntries
  /\ mediaUrlsBuffer = NoEntries
  /\ gwFrame = NoFrame
  /\ wsErrors = {}
  /\ lastMsg = NoMsg
  /\ gatewayClient = ClientConnected
  /\ listening = TRUE
  /\ pending = NoPending
  /\ settled = [id \in ReqIds |-> <<>>]
  /\ lastRes = NoRes
  /\ arg = ""
  /\ ret = NoCall

\* audio messages arriving as time passes
NextRate ==
  \/ \E c \in Conns, len \in AudioLens, loc \in Locations : RecvAudio(c, len, loc)
  \/ Tick

\* the rate limiter near its limit
SpecRate == InitRate /\ [][NextRate]_vars

\* audio messages of every size on authenticated connections
NextSize ==
  \/ \E c \in Conns, len \in AudioLens, loc \in Locations : RecvAudio(c, len, loc)
  \/ \E c \in Conns, len \in OversizeLens : RecvTooBig(c, len)
  \/ \E c \in Conns : OnClose(c)
  \/ Tick

SpecSize == InitAuthed /\ [][NextSize]_vars

(* ---------------------------------------------------------------------- *)
(* Properties                                                              *)
(* ---------------------------------------------------------------------- *)
RECURSIVE Count(_, _)
\* the number of frames of log that are in the set kinds
Count(log, kinds) ==
  IF log = <<>> THEN 0
  ELSE (IF Head(log) \in kinds THEN 1 ELSE 0) + Count(Tail(log), kinds)

\* the error frames a connection can get outside a turn
ErrorFrames == {Frame("error", 0, m) : m \in {MsgAuthTimeout, MsgInvalidToken,
                                               MsgNotAuthenticated, MsgBadMessage}}
\* the error frames that announce the close of an unauthenticated connection
ClosingFrames == {Frame("error", 0, MsgAuthTimeout), Frame("error", 0, MsgInvalidToken)}

\* the handler takes a well-formed message of connection c that is not auth
NonAuthMessage(c) ==
  \/ RecvPing(c)
  \/ \E enabled \in BOOLEAN : RecvTtsState(c, enabled)
  \/ RecvUnknown(c)
  \/ \E len \in AudioLens, loc \in Locations : RecvAudio(c, len, loc)

\* C1: Until a connection has authenticated, an audio, ping, tts_state or unknown
\* message has no effect: it starts no turn (no transcription, no gateway request),
\* is answered by no pong, leaves the TTS flag as it is; the only answer is the
\* error frame Not authenticated and the connection stays as open as it was.
C1_NoEffectBeforeAuth ==
  /\ [](\A c \in Conns : ~connectionAuthed[c] =>
          /\ connectionTtsState[c] = TRUE
          /\ \A t \in TurnIds : turns[t].conn # c
          /\ \A i \in 1..Len(sent[c][0]) : sent[c][0][i] \in ErrorFrames
          /\ \A t \in TurnIds : sent[c][t] = <<>>)
  /\ [][\A c \in Conns : (~connectionAuthed[c] /\ NonAuthMessage(c)) =>
          /\ readyState'[c] = readyState[c]
          /\ sent'[c][0] = IF readyState[c] = "OPEN"
                           THEN Append(sent[c][0], Frame("error", 0, MsgNotAuthenticated))
                           ELSE sent[c][0]
          /\ UNCHANGED <<connectionAuthed, connectionTtsState, connectionRateLimit,
                         authTimeout, pendingRequests, turns, gwInbox,
                         keepaliveIntervals>>]_vars

\* an open connection that has not authenticated got its rejection and is still open
C1_Witness ==
  \E c \in Conns :
    /\ ~connectionAuthed[c]
    /\ readyState[c] = "OPEN"
    /\ Count(sent[c][0], {Frame("error", 0, MsgNotAuthenticated)}) > 0

\* C2 as stated: a connection the server closes for a wrong token or for the
\* expiry of the auth timer has been sent exactly one error frame in its life.
C2_ExactlyOneErrorInLife ==
  \A c \in Conns :
    (readyState[c] = "CLOSING" /\ ~connectionAuthed[c]) =>
      Count(sent[c][0], ErrorFrames) = 1

\* C2 amended: a wrong-token auth message or the expiry of the auth timer on an
\* unauthenticated connection sends exactly one error frame of its own (Invalid
\* token, Authentication timeout) and closes; that frame is the last frame of the
\* connection, and it may follow the error frames of earlier rejected messages.
C2_OneClosingError ==
  /\ [](\A c \in Conns : (readyState[c] = "CLOSING" /\ ~connectionAuthed[c]) =>
          /\ Count(sent[c][0], ClosingFrames) = 1
          /\ sent[c][0][Len(sent[c][0])] \in ClosingFrames)
  /\ [][\A c \in Conns :
          /\ readyState[c] \in {"CLOSING", "CLOSED"} => sent'[c] = sent[c]
          /\ (readyState[c] = "OPEN" /\ readyState'[c] = "CLOSING") =>
               /\ Len(sent'[c][0]) = Len(sent[c][0]) + 1
               /\ ~connectionAuthed[c]]_vars

\* the auth timer closed a connection that had been told Not authenticated before
C2_Witness ==
  \E c \in Conns :
    /\ readyState[c] = "CLOSING"
    /\ Count(sent[c][0], {Frame("error", 0, MsgAuthTimeout)}) = 1
    /\ Count(sent[c][0], {Frame("error", 0, MsgNotAuthenticated)}) = 1

\* the frames of turn t that reached its connection, status frames aside
TurnFrames(t) ==
  SelectSeq(sent[turns[t].conn][t], LAMBDA f : f.type # "status")
\* their types
Kinds(t) == [i \in 1..Len(TurnFrames(t)) |-> TurnFrames(t)[i].type]
\* turn t has run to its end on a connection that is still open
Finished(t) == turns[t].pc = "done" /\ readyState[turns[t].conn] = "OPEN"

\* (transcript)? (response)? (audio)* audio_end
MatchesSuccess(k) ==
  LET n == Len(k)
      i1 == IF n >= 1 /\ k[1] = "transcript" THEN 1 ELSE 0
      i2 == IF n > i1 /\ k[i1 + 1] = "response" THEN i1 + 1 ELSE i1
  IN n >= 1 /\ k[n] = "audio_end" /\ \A j \in (i2 + 1)..(n - 1) : k[j] = "audio"

\* (transcript (response (audio)*)?)? (error)? audio_end
MatchesTurn(k) ==
  LET n == Len(k)
      m == IF n >= 2 /\ k[n - 1] = "error" THEN n - 2 ELSE n - 1
  IN /\ n >= 1 /\ k[n] = "audio_end"
     /\ m >= 1 => k[1] = "transcript"
     /\ m >= 2 => k[2] = "response"
     /\ \A j \in 3..m : k[j] = "audio"

\* C3 as stated: the frames of a turn on a connection that stays open match
\* (transcript)? (response)? (audio)* audio_end or error audio_end.
C3_FramesMatchGrammar ==
  \A t \in TurnIds :
    Finished(t) => MatchesSuccess(Kinds(t)) \/ Kinds(t) = <<"error", "audio_end">>

\* C3 amended: the frames of a turn on a connection that stays open match
\* (transcript (response (audio)*)?)? (error)? audio_end: transcript precedes
\* response, response precedes every audio chunk, audio_end is last and sent
\* once, and an error frame, if any, comes right before audio_end, after
\* whatever the turn had sent when it failed.
C3_FramesMatchTurn ==
  \A t \in TurnIds : Finished(t) => MatchesTurn(Kinds(t))

\* a turn that failed after its transcript was shown
C3_Witness ==
  \E t \in TurnIds : Finished(t) /\ Kinds(t) = <<"transcript", "error", "audio_end">>

\* C5 as stated: the response that resolves a turn is the gateway's answer to a
\* message forwarded for a turn of the same connection.
C5_ResponseOfOwnConnection ==
  \A t \in TurnIds :
    turns[t].resolved => turns[turns[t].response.re].conn = turns[t].conn

\* transcripts the filter has to drop: an empty one and a known hallucination
FilteredExamples == {"", "thank you"}

\* C8: a turn whose transcript is filtered sends audio_end and nothing else
\* (status frames aside), and forwards nothing: no message to the gateway, no
\* pending request, no timer.
C8_FilteredOnlyAudioEnd ==
  \A t \in TurnIds :
    (turns[t].accepted /\ turns[t].pc # "transcribing" /\ turns[t].error = "" /\
     turns[t].transcript \in FilteredExamples) =>
      /\ turns[t].pc = "done"
      /\ turns[t].message = NoMessage
      /\ ~turns[t].timeout /\ ~turns[t].resolved
      /\ ~InQueue(pendingRequests, t) /\ ~InQueue(gwInbox, t)
      /\ Kinds(t) = IF readyState[turns[t].conn] = "OPEN" THEN <<"audio_end">>
                    ELSE Kinds(t)
      /\ \A i \in 1..Len(Kinds(t)) : Kinds(t)[i] = "audio_end"
      /\ Len(Kinds(t)) <= 1

\* the transcript thank you was filtered on an open connection
C8_Witness ==
  \E t \in TurnIds :
    /\ Finished(t) /\ turns[t].accepted /\ turns[t].error = ""
    /\ turns[t].transcript = "thank you"
    /\ Kinds(t) = <<"audio_end">>

\* the strings getSafeErrorMessage can return and those the handler sends itself
SafeMessages ==
  {MsgUnexpected, MsgTimedOut, MsgUnavailable, MsgAudioFailed, MsgSynthesisFailed,
   MsgGeneric, MsgAuthTimeout, MsgInvalidToken, MsgNotAuthenticated, MsgRateLimit,
   MsgTooLarge, MsgBadMessage}

\* turn t passed the filter and was resolved with a response that has text
Answered(t) ==
  /\ Finished(t) /\ turns[t].resolved
  /\ turns[t].response.text # ""

\* the audio frames 1..n of turn t
AudioFrames(t, n) == [k \in 1..n |-> AudioFrame(t, k)]

\* C9 as stated: a turn with a passing transcript and a response with text sends
\* the transcript frame, the response frame, one or more audio chunks, audio_end.
C9_OneOrMoreChunks ==
  \A t \in TurnIds :
    (Answered(t) /\ turns[t].error = "") =>
      \E n \in 1..MaxChunks :
        TurnFrames(t) = <<Frame("transcript", t, turns[t].transcript),
                          Frame("response", t, turns[t].response.text)>>
                        \o AudioFrames(t, n) \o <<Frame("audio_end", t, "")>>

\* C9 amended: a turn with a passing transcript and a response with text sends a
\* transcript frame with exactly the transcribed text, a response frame with
\* exactly the text of the response that resolved it, then zero or more audio
\* chunks in order (none when nothing speakable is left of the text or when
\* synthesis yields none), then an error frame if synthesis failed, then audio_end.
C9_ZeroOrMoreChunks ==
  \A t \in TurnIds :
    Answered(t) =>
      /\ ~FilteredOf[turns[t].transcript]
      /\ \E n \in 0..MaxChunks, m \in SafeMessages :
           TurnFrames(t) =
             <<Frame("transcript", t, turns[t].transcript),
               Frame("response", t, turns[t].response.text)>>
             \o AudioFrames(t, n)
             \o (IF turns[t].error = "" THEN <<>> ELSE <<Frame("error", t, m)>>)
             \o <<Frame("audio_end", t, "")>>
      /\ SpokenTextOf[turns[t].response.text] = "" => turns[t].chunks = 0

\* a response of which nothing is spoken: the turn ends without an audio chunk
C9_Witness ==
  \E t \in TurnIds :
    /\ Answered(t) /\ turns[t].error = ""
    /\ turns[t].response.text = SMILE
    /\ Kinds(t) = <<"transcript", "response", "audio_end">>

\* the safe strings in which a provider body would show
LeakingMessages ==
  {s \in SafeMessages : \E b \in ProviderBodies : Includes(s, b)}
\* the words getSafeErrorMessage looks for
Keywords == {"timeout", "gateway", "not connected", "transcri", "tts", "speech"}
KeywordsOf == [m \in ThrownErrors |-> {k \in Keywords : Includes(ToLowerCase(m), k)}]
\* the error texts with their provider body taken off
StageOf ==
  [m \in ThrownErrors |->
     IF m \in TranscriptionErrors THEN "transcription"
     ELSE IF m \in SynthesisErrors \ {"terminated"} THEN "synthesis"
     ELSE m]
\* every frame sent so far
AllFrames ==
  UNION {{sent[c][t][i] : i \in 1..Len(sent[c][t])} : c \in Conns, t \in TurnIds \cup {0}}
\* the turns that failed on a connection that is still open
Failed(t) == Finished(t) /\ turns[t].error # ""
\* the message of the error frame of a failed turn
ErrorData(t) == TurnFrames(t)[Len(TurnFrames(t)) - 1].data

\* C10 as stated, its last part: two failures that differ only in the body of the
\* provider's error show the client the same error frame.
C10_BodyIndependent ==
  \A t, u \in TurnIds :
    (Failed(t) /\ Failed(u) /\ StageOf[turns[t].error] = StageOf[turns[u].error]) =>
      ErrorData(t) = ErrorData(u)

\* C10 amended: every error frame carries one of the fixed safe strings and no
\* frame carries the text of a failure; the safe string depends on the failure
\* text only through which of the words timeout, gateway, not connected,
\* transcri, tts, speech it contains, so two failures whose texts hold the same
\* of these words show the client the same error frame.
C10_SafeMessagesOnly ==
  /\ \A f \in AllFrames :
       /\ f.type = "error" => f.data \in SafeMessages \ LeakingMessages
       /\ f.data \notin ThrownErrors
  /\ \A t, u \in TurnIds :
       (Failed(t) /\ Failed(u) /\
        KeywordsOf[turns[t].error] = KeywordsOf[turns[u].error]) =>
         ErrorData(t) = ErrorData(u)

\* two transcription failures whose bodies differ got different safe strings
C10_Witness ==
  \E t, u \in TurnIds :
    /\ Failed(t) /\ Failed(u)
    /\ turns[t].error \in TranscriptionErrors /\ turns[u].error \in TranscriptionErrors
    /\ ErrorData(t) = MsgTimedOut /\ ErrorData(u) = MsgAudioFailed

\* the audio_end frames of turn t that reached its connection
AudioEnds(t) == Count(sent[turns[t].conn][t], {Frame("audio_end", t, "")})

\* C4: every turn an accepted audio message starts on a connection that stays
\* open ends with an audio_end frame, whichever way it goes (success,
\* transcription failure, gateway send failure, gateway timeout, synthesis
\* failure), and no turn is sent two audio_end frames.
C4_TurnEndsOnce ==
  /\ \A t \in TurnIds :
       turns[t].accepted ~>
         (turns[t].accepted /\
          (readyState[turns[t].conn] # "OPEN" \/ AudioEnds(t) = 1))
  /\ [](\A t \in TurnIds : turns[t].pc # "unused" => AudioEnds(t) <= 1)

\* a turn ended by the expiry of its pending request, one by a synthesis failure
C4_Witness ==
  \E t, u \in TurnIds :
    /\ Finished(t) /\ turns[t].error = GatewayTimeoutError /\ AudioEnds(t) = 1
    /\ Finished(u) /\ turns[u].error \in SynthesisErrors /\ AudioEnds(u) = 1

\* C6: a chat or agent event whose sessionKey is neither the configured key nor
\* that key behind agent:main: changes nothing: no buffer entry appears, no
\* response is emitted, no pending request is resolved, nothing is sent.
C6_ForeignEventIgnored ==
  [][(gwFrame'.event # "none" /\ ~(gwFrame'.sessionKey \in
        {SESSION_KEY, "agent:main:" \o SESSION_KEY})) =>
       UNCHANGED <<responseBuffer, mediaUrlsBuffer, pendingRequests, turns, sent,
                   keepaliveIntervals, gwInbox>>]_vars

\* a final chat event of another session was handled while the first turn was
\* waiting and an agent event of our session had left media for its run
C6_Witness ==
  /\ gwFrame.event = "chat" /\ gwFrame.sessionKey = "agent:main:other"
  /\ gwFrame.state = "final"
  /\ pendingRequests = <<1>>
  /\ turns[1].pc = "awaiting"
  /\ Has(mediaUrlsBuffer, 1)

\* an audio message of connection c starts turn t in this step
Received(c, t) ==
  turns[t].pc = "unused" /\ turns'[t].pc # "unused" /\ turns'[t].conn = c
\* the window of connection c is running
InWindow(c) == connectionRateLimit[c].set /\ now <= connectionRateLimit[c].resetAt

\* C7: within one window of 60 s at most 20 audio messages of a connection are
\* accepted: the next one in the window gets the rate-limit error and audio_end
\* and is not transcribed, and the first one after the window is accepted and
\* opens a new window.
C7_RateLimit ==
  /\ [](\A c \in Conns : connectionRateLimit[c].count <= 20)
  /\ [][\A c \in Conns, t \in TurnIds : Received(c, t) =>
          /\ (InWindow(c) /\ connectionRateLimit[c].count >= 20) =>
               /\ ~turns'[t].accepted /\ turns'[t].pc = "done"
               /\ sent'[c][t] = <<Frame("error", t, MsgRateLimit),
                                  Frame("audio_end", t, "")>>
               /\ connectionRateLimit'[c] = connectionRateLimit[c]
          /\ (InWindow(c) /\ connectionRateLimit[c].count < 20) =>
               /\ turns'[t].accepted /\ turns'[t].pc = "transcribing"
               /\ connectionRateLimit'[c] =
                    [connectionRateLimit[c] EXCEPT !.count = @ + 1]
          /\ ~InWindow(c) =>
               /\ turns'[t].accepted /\ turns'[t].pc = "transcribing"
               /\ connectionRateLimit'[c] =
                    [set |-> TRUE, count |-> 1, resetAt |-> now + 60000]]_vars

\* the 21st message of a window was rejected and, the window over, the next accepted
C7_Witness ==
  \E t, u \in TurnIds :
    /\ t < u /\ turns[t].conn = turns[u].conn
    /\ turns[t].pc = "done" /\ ~turns[t].accepted
    /\ turns[u].accepted
    /\ connectionRateLimit[turns[u].conn].count = 1

\* ---------------------------------------------------------------------------
\* Turns of one connection

\* the positions of the shared queue whose request is owned by connection c
PendingOf(c) == {i \in 1..Len(pendingRequests) : turns[pendingRequests[i]].conn = c}

\* C11: at every moment the shared queue holds at most one pending request per
\* connection, whatever audio messages the client sends.
C11_OnePendingPerConnection ==
  \A c \in Conns : Cardinality(PendingOf(c)) <= 1

Started(t) == turns[t].pc # "unused"

\* C12: turns of one connection do not overlap: a turn has started on an open
\* connection only if every earlier turn of that connection has ended.
C12_TurnsDoNotOverlap ==
  \A t, u \in TurnIds :
    /\ t < u
    /\ Started(t) /\ Started(u)
    /\ turns[t].conn = turns[u].conn
    /\ readyState[turns[t].conn] = "OPEN"
    => turns[t].pc = "done"

\* C13: once a connection has closed, the queue holds no request of it and
\* none of its timers (auth, keepalive, request expiry) is armed.
C13_NothingLeftAfterClose ==
  \A c \in Conns :
    readyState[c] = "CLOSED"
    => /\ PendingOf(c) = {}
       /\ ~authTimeout[c]
       /\ c \notin keepaliveIntervals
       /\ \A t \in TurnIds : turns[t].conn = c => ~turns[t].timeout

\* C14: the response to the request of a connection that closed while the
\* request was in flight at the gateway resolves no request of another
\* connection, and no frame of it reaches the closed connection.
C14_LateResponseDropped ==
  \A t, u \in TurnIds :
    /\ turns[t].resolved
    /\ turns[t].response.re = u
    /\ readyState[turns[u].conn] = "CLOSED"
    => turns[t].conn = turns[u].conn

\* ---------------------------------------------------------------------------
\* The gateway connection drops

\* the last two frames of a turn that failed on an open connection
LastTwo(t) == SubSeq(TurnFrames(t), Len(TurnFrames(t)) - 1, Len(TurnFrames(t)))

\* C15 as stated: a request that expired while the gateway connection was down
\* is reported with the service-unavailable message.
C15_TimeoutIsUnavailable ==
  \A t \in TurnIds :
    ~connected /\ Failed(t) /\ turns[t].error = GatewayTimeoutError
    => ErrorData(t) = MsgUnavailable

\* C15: the drop of the gateway connection completes no pending request and
\* sends nothing; while the connection is down a turn leaves its wait only by
\* the expiry of its request, which is reported as the timed-out message
\* followed by audio_end.
C15_DisconnectLeavesPending ==
  [][/\ connected /\ ~connected'
        => UNCHANGED <<pendingRequests, turns, sent, keepaliveIntervals>>
     /\ \A t \in TurnIds :
          ~connected /\ turns[t].pc = "awaiting" /\ turns'[t].pc # "awaiting"
          => /\ turns'[t].pc = "done"
             /\ turns'[t].error = GatewayTimeoutError
             /\ ~InQueue(pendingRequests', t)
             /\ sent' = SendAll(turns[t].conn,
                                <<Frame("error", t, MsgTimedOut),
                                  Frame("audio_end", t, "")>>)
    ]_vars

\* a request expired while the gateway connection was down and the client was
\* told so
C15_Witness ==
  \E t \in TurnIds :
    /\ ~connected
    /\ Failed(t) /\ turns[t].error = GatewayTimeoutError
    /\ LastTwo(t) = <<Frame("error", t, MsgTimedOut), Frame("audio_end", t, "")>>

\* ---------------------------------------------------------------------------
\* The auth timer

\* C16: a connection that is open and unauthenticated is eventually
\* authenticated or closed, whatever other messages it sends; the auth timer
\* that fires on a connection still open and unauthenticated sends it the
\* authentication-timeout error frame and closes it.
C16_UnauthenticatedIsClosed ==
  /\ \A c \in Conns :
       (readyState[c] = "OPEN" /\ ~connectionAuthed[c])
         ~> (connectionAuthed[c] \/ readyState[c] # "OPEN")
  /\ [][\A c \in Conns :
         /\ authTimeout[c] /\ ~authTimeout'[c]
         /\ readyState[c] = "OPEN" /\ readyState'[c] # "CLOSED"
         /\ ~connectionAuthed'[c]
         => /\ sent'[c][0] = Append(sent[c][0], Frame("error", 0, MsgAuthTimeout))
            /\ readyState'[c] = "CLOSING"]_vars

\* the timer closed a connection that had sent two messages, none of them a
\* valid auth
C16_Witness ==
  \E c \in Conns :
    /\ readyState[c] = "CLOSING" /\ ~connectionAuthed[c]
    /\ Len(sent[c][0]) = 3
    /\ Count(sent[c][0], {Frame("error", 0, MsgNotAuthenticated)}) = 2
    /\ sent[c][0][3] = Frame("error", 0, MsgAuthTimeout)

\* ---------------------------------------------------------------------------
\* Oversized audio

\* C17 as stated, for the size limit: a connection that was sent an audio
\* message decoding to more than 10MB stays open and authenticated and is
\* answered with the too-large error frame followed by audio_end.
C17_OversizeAnswered ==
  \A c \in wsErrors :
    /\ readyState[c] = "OPEN"
    /\ connectionAuthed[c]
    /\ \E t \in TurnIds :
         /\ turns[t].conn = c
         /\ sent[c][t] = <<Frame("error", t, MsgTooLarge), Frame("audio_end", t, "")>>

\* ---------------------------------------------------------------------------
\* Closed connections

\* C18: no step sends a frame to a connection that is not open, whatever
\* adapter call or gateway response completes in it.
C18_NothingSentUnlessOpen ==
  [][\A c \in Conns : readyState[c] # "OPEN" => sent'[c] = sent[c]]_vars

\* a turn got its response before its connection closed and ran to its end
\* afterwards: the closed connection was sent no audio_end
C18_Witness ==
  \E t \in TurnIds :
    /\ turns[t].resolved /\ turns[t].pc = "done"
    /\ readyState[turns[t].conn] = "CLOSED"
    /\ Count(sent[turns[t].conn][t], {Frame("response", t, d) : d \in ResponseTexts}) = 1
    /\ Count(sent[turns[t].conn][t], {Frame("audio_end", t, "")}) = 0

\* ---------------------------------------------------------------------------
\* ping, tts_state and unknown messages of an authenticated connection

\* the handler takes a message of the authenticated connection c of this type
Takes(c, type) ==
  /\ msgs' # msgs
  /\ lastMsg'.conn = c /\ lastMsg'.type = type
  /\ connectionAuthed[c]

\* the state of the connections and of their turns, the frames sent aside
ConnState ==
  <<readyState, connectionAuthed, connectionRateLimit, authTimeout,
    keepaliveIntervals, pendingRequests, turns, wsErrors>>

\* C19: a ping of an authenticated open connection appends exactly one pong to
\* what the connection is sent, a turn in flight or not, and changes nothing
\* else; a message of unknown type sends nothing and changes no state.
C19_PingPongUnknownIgnored ==
  [][\A c \in Conns :
       /\ Takes(c, "ping") =>
            /\ readyState[c] = "OPEN" =>
                 sent' = [sent EXCEPT ![c][0] = Append(@, Frame("pong", 0, ""))]
            /\ UNCHANGED <<ConnState, connectionTtsState>>
       /\ Takes(c, "unknown") =>
            UNCHANGED <<ConnState, connectionTtsState, sent>>]_vars

\* a ping was answered while the request of a turn of its connection was
\* pending at the gateway
C19_Witness ==
  \E c \in Conns :
    /\ lastMsg = Msg(c, "ping", FALSE)
    /\ PendingOf(c) # {}
    /\ sent[c][0] = <<Frame("status", 0, "transcribing"), Frame("pong", 0, "")>>

\* C20: a tts_state message of an authenticated connection sets the TTS flag
\* of that connection to msg.enabled and changes nothing else: no frame is
\* sent, its authentication, rate-limit window, timers and pending requests
\* and the flags of the other connections stay as they are.
C20_TtsStateOnlyFlag ==
  [][\A c \in Conns :
       Takes(c, "tts_state") =>
         /\ connectionTtsState' = [connectionTtsState EXCEPT ![c] = lastMsg'.enabled]
         /\ UNCHANGED <<ConnState, sent>>]_vars

\* connection 1 turned its TTS off while its request was pending; the flag of
\* connection 2 is still on
C20_Witness ==
  /\ lastMsg = Msg(1, "tts_state", FALSE)
  /\ ~connectionTtsState[1] /\ connectionTtsState[2]
  /\ PendingOf(1) # {}

\* ---------------------------------------------------------------------------
\* The transcript filter

\* what the filter is to say of a transcript made of word w and punctuation q
ExpectedFilter(w, q) ==
  IF w \in NoWords
  THEN IF q = "" THEN [filtered |-> TRUE, reason |-> "empty"]
       ELSE [filtered |-> TRUE, reason |-> "noise"]
  ELSE IF w \in NoiseWords THEN [filtered |-> TRUE, reason |-> "noise"]
  ELSE IF w \in HallucinationWords THEN [filtered |-> TRUE, reason |-> "hallucination"]
  ELSE [filtered |-> FALSE, reason |-> "none"]

\* C21: shouldFilter tests empty, then noise, then hallucination, and the first
\* test that holds gives the reason: a transcript empty after trimming is
\* empty; else one of fewer than 2 characters without . ! ? , is noise; else
\* one a hallucination pattern matches is a hallucination; else it is not
\* filtered and has no reason.
C21_FilterOrder ==
  ret.fn = "shouldFilter" =>
    /\ \A p \in Pads, w \in Words, q \in Puncts, r \in Pads :
         arg = p \o w \o q \o r => ret.value = ExpectedFilter(w, q)
    /\ ret.value.reason = "empty" <=> Trim(arg) = ""
    /\ ret.value.reason = "noise" <=> (Trim(arg) # "" /\ isTooShort(arg))
    /\ ret.value.reason = "hallucination" <=>
         (Trim(arg) # "" /\ ~isTooShort(arg) /\ isHallucination(arg))
    /\ ret.value.filtered <=> ret.value.reason # "none"

\* the filter has called Thanks for watching a hallucination
C21_Witness ==
  /\ arg = "Thanks for watching"
  /\ ret = Call("shouldFilter", [filtered |-> TRUE, reason |-> "hallucination"])

\* ---------------------------------------------------------------------------
\* The cleaning of the response text

\* C22 as stated: cleaning a cleaned text returns it unchanged.
C22_CleaningIdempotent ==
  ret.fn = "spokenText again" => ret.value = arg

\* ---------------------------------------------------------------------------
\* Malformed frames

\* C23: a frame that is not JSON leaves its connection open and changes
\* neither its authentication, its TTS flag, its rate-limit window, its timers
\* nor any pending request; the connection is sent the error frame of the
\* handler's catch and nothing else.
C23_MalformedLeavesState ==
  [][\A c \in Conns :
       msgs' # msgs /\ lastMsg' = Msg(c, "malformed", FALSE) =>
         /\ UNCHANGED <<ConnState, connectionTtsState>>
         /\ readyState[c] = "OPEN" =>
              sent' = [sent EXCEPT ![c][0] = Append(@, Frame("error", 0, MsgBadMessage))]
    ]_vars

\* a connection with a pending request sent a malformed frame and then a ping,
\* and the ping was answered
C23_Witness ==
  \E c \in Conns :
    /\ readyState[c] = "OPEN" /\ connectionAuthed[c]
    /\ PendingOf(c) # {}
    /\ sent[c][0] = <<Frame("status", 0, "transcribing"),
                      Frame("error", 0, MsgBadMessage), Frame("pong", 0, "")>>

\* ---------------------------------------------------------------------------
\* Failures of the adapters

\* how far a turn has come
Rank(pc) ==
  CASE pc = "unused" -> 0
    [] pc = "transcribing" -> 1
    [] pc = "awaiting" -> 2
    [] pc \in {"tts", "readfile"} -> 3
    [] pc = "done" -> 4

\* C24: a turn calls each adapter at most once (it never returns to a stage it
\* has left); a transcription failure gives the client the error frame and
\* audio_end and nothing else, and no message of the turn goes to the
\* gateway; a synthesis failure gives, after the frames sent so far, one error
\* frame and audio_end.
C24_FailureSurfacesOnce ==
  /\ [](\A t \in TurnIds :
         /\ Finished(t) /\ turns[t].error \in TranscriptionErrors =>
              /\ TurnFrames(t) = <<Frame("error", t, SafeMessageOf[turns[t].error]),
                                   Frame("audio_end", t, "")>>
              /\ turns[t].message = NoMessage /\ turns[t].transcript = ""
              /\ ~turns[t].resolved /\ ~turns[t].timeout
              /\ ~InQueue(gwInbox, t) /\ ~InQueue(pendingRequests, t)
         /\ Finished(t) /\ turns[t].error \in SynthesisErrors =>
              TurnFrames(t) =
                <<Frame("transcript", t, turns[t].transcript),
                  Frame("response", t, turns[t].response.text)>>
                \o AudioFrames(t, turns[t].chunks)
                \o <<Frame("error", t, SafeMessageOf[turns[t].error]),
                      Frame("audio_end", t, "")>>)
  /\ [][\A t \in TurnIds :
         turns'[t].pc # turns[t].pc => Rank(turns'[t].pc) > Rank(turns[t].pc)]_vars

\* one turn failed in transcription, another in synthesis after a chunk
C24_Witness ==
  \E t, u \in TurnIds :
    /\ Finished(t) /\ turns[t].error \in TranscriptionErrors
    /\ Finished(u) /\ turns[u].error = "terminated" /\ turns[u].chunks = 1

\* ---------------------------------------------------------------------------
\* Streaming of the synthesis

\* the audio frames turn t has been sent so far
AudioSent(t) == SelectSeq(sent[turns[t].conn][t], LAMBDA f : f.type = "audio")

\* C25: at every moment the audio frames an open connection has been sent for
\* a turn are the chunks its synthesis has produced so far, one frame per
\* chunk in the order of production; the step that produces a chunk sends its
\* frame; and once audio_end is sent it is the last frame of the turn.
C25_ChunksForwardedInOrder ==
  /\ [](\A t \in TurnIds :
         (Started(t) /\ readyState[turns[t].conn] = "OPEN") =>
           /\ AudioSent(t) = AudioFrames(t, turns[t].chunks)
           /\ AudioEnds(t) > 0 =>
                /\ turns[t].pc = "done"
                /\ sent[turns[t].conn][t][Len(sent[turns[t].conn][t])].type = "audio_end")
  /\ [][\A t \in TurnIds :
         (turns'[t].chunks = turns[t].chunks + 1 /\ readyState[turns[t].conn] = "OPEN") =>
           sent'[turns[t].conn][t] =
             Append(sent[turns[t].conn][t], AudioFrame(t, turns'[t].chunks))]_vars

\* a synthesis of two chunks: both frames, in order, then audio_end
C25_Witness ==
  \E t \in TurnIds :
    /\ Finished(t) /\ turns[t].chunks = 2
    /\ TurnFrames(t) =
         <<Frame("transcript", t, turns[t].transcript),
           Frame("response", t, turns[t].response.text),
           AudioFrame(t, 1), AudioFrame(t, 2), Frame("audio_end", t, "")>>

\* ---------------------------------------------------------------------------
\* Delivery of the gateway's responses

\* the turns whose request this step resolves
ResolvedNow == {t \in TurnIds : ~turns[t].resolved /\ turns'[t].resolved}

\* C26: a step that delivers a response resolves one request, the head of the
\* queue: the request leaves the queue, its expiry timer is cleared, and the
\* other requests, their timers and their turns stay as they are; while the
\* queue is empty no step resolves a request, whatever the gateway answers.
C26_OldestRequestResolved ==
  [][/\ ResolvedNow # {} =>
          /\ pendingRequests # <<>>
          /\ ResolvedNow = {Head(pendingRequests)}
          /\ pendingRequests' = Tail(pendingRequests)
          /\ ~turns'[Head(pendingRequests)].timeout
          /\ \A u \in TurnIds \ ResolvedNow :
               /\ turns'[u] = turns[u]
               /\ \A c \in Conns : sent'[c][u] = sent[c][u]
     /\ pendingRequests = <<>> => \A t \in TurnIds : turns'[t].resolved = turns[t].resolved
    ]_vars

\* the older of two requests has been resolved, the newer one is still queued
\* with its timer armed
C26_Witness ==
  \E t, u \in TurnIds :
    /\ t < u
    /\ turns[t].resolved /\ turns[t].response.re = t
    /\ pendingRequests = <<u>> /\ gwInbox = <<u>>
    /\ turns[u].pc = "awaiting" /\ turns[u].timeout

\* ---------------------------------------------------------------------------
\* The flush of the gateway client's buffers

\* C27 as stated: the final chat event that ends the accumulation of text for
\* a run (its buffer entry is gone after it) flushes it as one response, which
\* resolves the oldest request waiting.
C27_FinalFlushesOnce ==
  [][\A r \in RunIds :
       (Has(responseBuffer, r) /\ ~Has(responseBuffer', r) /\ pendingRequests # <<>>) =>
         /\ pendingRequests' = Tail(pendingRequests)
         /\ turns'[Head(pendingRequests)].resolved]_vars

\* ---------------------------------------------------------------------------
\* The life of a pending request

\* the request of turn t was rejected by its expiry
Expired(t) == turns[t].error = GatewayTimeoutError

\* C28: a request is never both resolved and expired; a resolved or expired
\* request is out of the queue and its timer is not armed, so that neither a
\* timer fires for it nor a response reaches it; the queue holds each request
\* once, only while its turn waits, with its timer armed; and what is resolved
\* or expired stays so.
C28_CompletesAtMostOnce ==
  /\ [](\A t \in TurnIds :
         /\ ~(turns[t].resolved /\ Expired(t))
         /\ (turns[t].resolved \/ Expired(t)) =>
              ~InQueue(pendingRequests, t) /\ ~turns[t].timeout
         /\ InQueue(pendingRequests, t) =>
              /\ turns[t].pc = "awaiting" /\ turns[t].timeout
              /\ Cardinality({i \in 1..Len(pendingRequests) : pendingRequests[i] = t}) = 1
         /\ turns[t].timeout => InQueue(pendingRequests, t))
  /\ [][\A t \in TurnIds :
         /\ turns[t].resolved => turns'[t].resolved /\ turns'[t].response = turns[t].response
         /\ Expired(t) => Expired(t)']_vars

\* one request was resolved and another expired
C28_Witness ==
  \E t, u \in TurnIds :
    /\ turns[t].resolved /\ turns[t].pc = "done"
    /\ Expired(u) /\ turns[u].pc = "done"
    /\ pendingRequests = <<>>

\* ---------------------------------------------------------------------------
\* The pending requests across a drop of the gateway connection

\* the requests that wait in the shared queue with their expiry timer armed
Waiting == {t \in TurnIds : InQueue(pendingRequests, t) /\ turns[t].timeout}

\* C29: the step in which the gateway connection drops and the step in which
\* it is back leave the shared queue, every expiry timer and every turn as they
\* were: no request is resolved or rejected, and no frame is sent.
C29_QueueSurvivesDisconnect ==
  [][connected' # connected
       => /\ pendingRequests' = pendingRequests
          /\ Waiting' = Waiting
          /\ \A t \in TurnIds :
               /\ turns'[t].timeout = turns[t].timeout
               /\ turns'[t].resolved = turns[t].resolved
               /\ turns'[t].pc = turns[t].pc
               /\ turns'[t].error = turns[t].error
          /\ sent' = sent
    ]_vars

\* the gateway connection is down, a reconnect is scheduled, and a request
\* still waits in the queue with its timer armed
C29_Witness ==
  /\ ~connected
  /\ gatewayClient.ws = "CLOSED" /\ gatewayClient.reconnect = 1
  /\ Waiting # {}
  /\ \A t \in Waiting : turns[t].pc = "awaiting" /\ ~turns[t].resolved

\* ---------------------------------------------------------------------------
\* Reconnecting to the gateway

\* C30: whenever the gateway client is not connected, at startup or after a
\* drop, it is connected again later, provided the gateway keeps accepting.
C30_EventuallyConnected == ~connected ~> connected

\* ---------------------------------------------------------------------------
\* The handshake on the gateway socket

\* C31: on every socket, the first one and every later one, once the timer
\* armed on open has fired, an attempt that is not settled and has received no
\* challenge has sent its connect request.
C31_FallbackSendsConnect ==
  /\ gatewayClient.ws = "OPEN"
  /\ ~gatewayClient.fallback
  /\ ~gatewayClient.connectResolved
  /\ gatewayClient.challenges = 0
  => gatewayClient.connects > 0

\* C32: at most one connect request is sent on a socket, whatever the order of
\* the timer armed on open and the challenge events.
C32_OneConnectPerSocket == gatewayClient.connects <= 1

C34_ResponseSettlesItsRequest ==
  /\ [](\A id \in ReqIds :
          /\ Len(settled[id]) <= 1
          /\ id \in DOMAIN pending => settled[id] = <<>>)
  /\ [][/\ \A id \in ReqIds :
             settled'[id] # settled[id]
             => /\ id \in DOMAIN pending /\ id \notin DOMAIN pending'
                /\ lastRes'.id = id
                /\ settled'[id] = <<Settlement(lastRes'.ok, lastRes'.message)>>
                /\ \A other \in ReqIds \ {id} :
                     /\ settled'[other] = settled[other]
                     /\ other \in DOMAIN pending <=> other \in DOMAIN pending'
        /\ \A id \in DOMAIN pending :
             id \notin DOMAIN pending' => settled'[id] # settled[id]
        /\ lastRes' # lastRes /\ lastRes'.id \notin DOMAIN pending
             => pending' = pending /\ settled' = settled
       ]_vars

\* one request was rejected with the message of its response, one was resolved,
\* one still waits, and the last response frame carried an id of none of them
C34_Witness ==
  /\ settled[1] = <<[outcome |-> "rejected", message |-> "rate limited"]>>
  /\ settled[2] = <<[outcome |-> "resolved", message |-> ""]>>
  /\ 3 \in DOMAIN pending
  /\ lastRes.id = UnknownId

\* ---------------------------------------------------------------------------
\* The accumulation of text by run id

\* C35: while a run id has an entry, its text never gets shorter: it changes
\* only to the text of an event of that run, and only if that text is strictly
\* longer; after an event of our session with text the entry of its run, if
\* there is one, is at least as long as that text; and the text with which a
\* final chat event resolves a request is the stored text or the text of the
\* event itself, whichever is longer.
C35_LongestTextKept ==
  [][/\ \A r \in RunIds :
          /\ Has(responseBuffer, r) /\ Has(responseBuffer', r)
             => /\ Len(responseBuffer'[r]) >= Len(responseBuffer[r])
                /\ responseBuffer'[r] # responseBuffer[r]
                   => /\ Len(responseBuffer'[r]) > Len(responseBuffer[r])
                      /\ gwFrame'.runId = r /\ responseBuffer'[r] = gwFrame'.text
          /\ ~Has(responseBuffer, r) /\ Has(responseBuffer', r)
             => gwFrame'.runId = r /\ gwFrame'.text # ""
                /\ responseBuffer'[r] = gwFrame'.text
          /\ gwFrame'.runId = r /\ gwFrame'.text # "" /\ gwFrame'.state # "final"
             => Has(responseBuffer', r)
                /\ Len(responseBuffer'[r]) >= Len(gwFrame'.text)
     /\ \A t \in TurnIds :
          ~turns[t].resolved /\ turns'[t].resolved /\ turns'[t].response.text # ""
          => LET stored == Get(responseBuffer, gwFrame'.runId, "")
                 flushed == turns'[t].response.text
             IN /\ gwFrame'.state = "final"
                /\ flushed \in {stored, gwFrame'.text}
                /\ Len(flushed) >= Len(stored)
                /\ Len(flushed) >= Len(gwFrame'.text)
    ]_vars

\* the waiting turn was answered with the long text an agent event had left,
\* by a final chat event that carried only the short one
C35_Witness ==
  /\ turns[1].resolved
  /\ turns[1].response.text = "Sunny and 20C"
  /\ gwFrame.event = "chat" /\ gwFrame.state = "final" /\ gwFrame.text = "Sunny"

\* ---------------------------------------------------------------------------
\* Keepalives while a turn waits

\* the turns of connection c that wait for the gateway response
WaitingOn(c) == {t \in TurnIds : turns[t].conn = c /\ turns[t].pc = "awaiting"}

\* C36: a connection that is open and has a turn waiting for the gateway has
\* its keepalive timer armed, and a keepalive timer is armed only for a
\* connection that is not closed and has a turn waiting.
C36_KeepaliveWhileWaiting ==
  \A c \in Conns :
    /\ (readyState[c] = "OPEN" /\ WaitingOn(c) # {}) => c \in keepaliveIntervals
    /\ c \in keepaliveIntervals => (readyState[c] # "CLOSED" /\ WaitingOn(c) # {})

\* ---------------------------------------------------------------------------
\* The prefix of the forwarded message

\* C37: in the step that forwards the transcript of a turn to the gateway, the
\* message is the transcript with the location of the audio message and the
\* marker chosen by the flag its own connection has in that step: MIC when
\* speech is enabled, BOOK when it is not.
C37_PrefixFollowsFlag ==
  [][\A t \in TurnIds :
       turns[t].pc = "transcribing" /\ turns'[t].pc = "awaiting"
       => /\ turns'[t].message.prefix =
               (IF connectionTtsState[turns[t].conn] THEN MIC ELSE BOOK)
          /\ turns'[t].message.text = turns'[t].transcript
          /\ turns'[t].message.location = turns[t].location
    ]_vars

\* two turns were forwarded, that of the connection which disabled speech with
\* BOOK and that of the other connection with MIC
C37_Witness ==
  \E t, u \in TurnIds :
    /\ turns[t].pc = "awaiting" /\ turns[u].pc = "awaiting"
    /\ turns[t].conn # turns[u].conn
    /\ ~connectionTtsState[turns[t].conn] /\ connectionTtsState[turns[u].conn]
    /\ turns[t].message.prefix = BOOK /\ turns[u].message.prefix = MIC

\* ---------------------------------------------------------------------------
\* sendToGateway when the gateway cannot take the message

\* C38: while the gateway client is not connected, a turn that leaves its
\* transcription ends in that step, with nothing added to the queue or to the
\* gateway and no timer armed; and in the step in which a turn fails because its
\* chat.send was answered with an error, exactly its request leaves the queue,
\* its timer is cancelled, and every other turn is as before.
C38_SendFailureLeavesNothing ==
  [][\A t \in TurnIds :
       /\ ~connected /\ turns[t].pc = "transcribing" /\ turns'[t].pc # "transcribing"
          => /\ turns'[t].pc = "done"
             /\ ~turns'[t].timeout
             /\ pendingRequests' = pendingRequests
             /\ gwInbox' = gwInbox
             /\ \A u \in TurnIds : turns'[u].timeout = turns[u].timeout
       /\ turns[t].pc = "awaiting" /\ turns'[t].error \in GatewaySendErrors
          => /\ turns'[t].pc = "done"
             /\ ~turns'[t].timeout
             /\ pendingRequests' = Without(pendingRequests, {t})
             /\ ~InQueue(pendingRequests', t)
             /\ \A u \in TurnIds \ {t} : turns'[u] = turns[u]
    ]_vars

\* the chat.send of one turn was answered with an error while the request of
\* another turn stays queued with its timer armed
C38_Witness ==
  \E t, u \in TurnIds :
    /\ turns[t].pc = "done" /\ turns[t].error \in GatewaySendErrors
    /\ ~turns[t].timeout
    /\ pendingRequests = <<u>> /\ turns[u].pc = "awaiting" /\ turns[u].timeout

\* ---------------------------------------------------------------------------
\* One socket to the gateway

\* C39: there is never more than one gateway socket that has not closed and
\* never more than one reconnect timer, and a timer is armed only while there is
\* no socket; a socket is created only while the client is not connected, has
\* no attempt under way and has no socket, so that attempts never overlap.
C39_OneGatewaySocket ==
  /\ [](/\ gatewayClient.sockets <= 1
        /\ gatewayClient.reconnect <= 1
        /\ (gatewayClient.reconnect > 0 => gatewayClient.sockets = 0)
        /\ (gatewayClient.connectPromise = "pending" => gatewayClient.sockets = 1))
  /\ [][gatewayClient'.sockets > gatewayClient.sockets
          => /\ ~connected
             /\ gatewayClient.connectPromise = "null"
             /\ gatewayClient.sockets = 0
             /\ gatewayClient.ws = "CLOSED" /\ gatewayClient'.ws = "CONNECTING"
             /\ gatewayClient'.reconnect = gatewayClient.reconnect - 1
       ]_vars

\* the socket of a reconnect attempt is connecting, after the first socket
\* closed and its timer fired
C39_Witness ==
  /\ gatewayClient.ws = "CONNECTING"
  /\ gatewayClient.sockets = 1
  /\ gatewayClient.reconnect = 0
  /\ listening

\* ---------------------------------------------------------------------------
\* Authentication is set once

\* C40: a connection that is authenticated has no auth timer armed and stays
\* authenticated; no step sends it the authentication-timeout error frame, and
\* an auth message it sends, whatever the token, leaves its frames, its
\* readyState and its authentication as they were.
C40_AuthenticatedOnce ==
  /\ [](\A c \in Conns : connectionAuthed[c] => ~authTimeout[c])
  /\ [][\A c \in Conns :
         connectionAuthed[c] =>
           /\ connectionAuthed'[c]
           /\ Count(sent'[c][0], {Frame("error", 0, MsgAuthTimeout)})
                = Count(sent[c][0], {Frame("error", 0, MsgAuthTimeout)})
           /\ (\E token \in Tokens : msgs' # msgs /\ lastMsg' = AuthMsg(c, token))
                => /\ sent'[c] = sent[c]
                   /\ readyState'[c] = readyState[c]
      ]_vars

\* an authenticated connection sent an auth message with a wrong token and is
\* still open and authenticated, with the acknowledgement as its only frame
C40_Witness ==
  \E c \in Conns :
    /\ connectionAuthed[c] /\ readyState[c] = "OPEN"
    /\ msgs = 2
    /\ lastMsg = AuthMsg(c, "guess")
    /\ sent[c][0] = <<Frame("status", 0, "transcribing")>>

====
